---- MODULE Spec2Model ----
(***************************************************************************)
(* vocab-flow: the spaced-repetition scheduler (lib/srs), the question     *)
(* generator and answer checker (lib/questions), the vocabulary store      *)
(* (hooks/useVocabulary) and the study-session hook (hooks/useStudySession)*)
(* in its two versions: the one that keys the answer ledger by word id and *)
(* the one that keys it by question id.                                    *)
(*                                                                         *)
(* Strings are sequences of one-character strings.  Instants are counted   *)
(* in seconds (every interval of the program is a whole number of seconds) *)
(* and the local time zone is taken to be UTC.  One action is              *)
(* one event handler followed by the re-render, so every callback sees the *)
(* state left by the previous handler.  The StudySession component with    *)
(* its QuestionCard is specified apart: there a handler runs in steps of   *)
(* one hook call each and the effects of the commit run after it.          *)
(***************************************************************************)
EXTENDS Integers, Sequences, FiniteSets, TLC

\* ------------------------------------------------------------------ bounds
MaxWords == 2
MaxReviews == 2
MaxTicks == 1
MaxOutcomes == 5
MaxSortLen == 3
MaxCorpus == 4
MaxAnswerLen == 3
MaxTopicCorpus == 5
MaxBatch == 7
MaxLacking == 1
MaxRows == 3
MaxDays == 4
MaxStreakReviews == 4

\* --------------------------------------------------------- small utilities
Min(a, b) == IF a < b THEN a ELSE b
Max(a, b) == IF a > b THEN a ELSE b
Range(s) == {s[i] : i \in DOMAIN s}
\* s.slice(0, n): a negative n counts from the end
Slice(s, n) == SubSeq(s, 1, IF n < 0 THEN Max(Len(s) + n, 0) ELSE Min(n, Len(s)))
NoDate == 0 - 1
Null == "null"

\* ---------------------------------------------------------------- strings
UpperLetters == {"A", "B", "C", "X", "Y", "Z"}
LowerLetters ==
  {"a", "b", "c", "x", "y", "z", "d", "e", "g", "i", "m", "n", "o", "r", "w"}
ToLowerChar(c) ==
  CASE c = "A" -> "a" [] c = "B" -> "b" [] c = "C" -> "c"
    [] c = "X" -> "x" [] c = "Y" -> "y" [] c = "Z" -> "z"
    [] c = "É" -> "é"
    [] OTHER -> c
\* \w of a JavaScript regular expression without the u flag: [A-Za-z0-9_]
IsWordChar(c) == c \in UpperLetters \cup LowerLetters \cup {"0", "1", "2", "3", "_"}
\* \s
IsSpace(c) == c \in {" ", "\t"}

toLowerCase(s) == [i \in DOMAIN s |-> ToLowerChar(s[i])]

RECURSIVE TrimLeft(_)
TrimLeft(s) == IF s # <<>> /\ IsSpace(Head(s)) THEN TrimLeft(Tail(s)) ELSE s
RECURSIVE TrimRight(_)
TrimRight(s) ==
  IF s # <<>> /\ IsSpace(s[Len(s)]) THEN TrimRight(SubSeq(s, 1, Len(s) - 1)) ELSE s
trim(s) == TrimRight(TrimLeft(s))

\* s.replace(/[^\w\s]/g, '')
StripPunctuation(s) == SelectSeq(s, LAMBDA c : IsWordChar(c) \/ IsSpace(c))

\* s.replace(/\s+/g, ' ')
RECURSIVE CollapseSpaces(_)
CollapseSpaces(s) ==
  IF s = <<>> THEN <<>>
  ELSE IF IsSpace(Head(s))
       THEN <<" ">> \o CollapseSpaces(TrimLeft(s))
       ELSE <<Head(s)>> \o CollapseSpaces(Tail(s))

normalize(s) == CollapseSpaces(StripPunctuation(trim(toLowerCase(s))))

checkAnswer(userAnswer, correctAnswer) == normalize(userAnswer) = normalize(correctAnswer)

\* A \b position of a regular expression: between index p and p+1 of s.
IsBoundary(s, p) ==
  LET before == p >= 1 /\ p <= Len(s) /\ IsWordChar(s[p])
      after  == p + 1 >= 1 /\ p + 1 <= Len(s) /\ IsWordChar(s[p + 1])
  IN before # after

\* one character of the pattern against one character of the text, with the
\* i flag: the term is put into the pattern as it is, so a '.' of the term is
\* the wildcard of the regular expression
PatternCharMatches(pc, c) == pc = "." \/ ToLowerChar(pc) = ToLowerChar(c)

\* new RegExp(`\\b${vocabulary}\\b`, 'gi').test(example), for a term made of
\* letters, digits, spaces and '.'
TermInExample(vocabulary, example) ==
  LET t == toLowerCase(vocabulary)
      n == Len(t)
  IN \E p \in 0..(Len(example) - n) :
       /\ \A k \in 1..n : PatternCharMatches(t[k], example[p + k])
       /\ IsBoundary(example, p)
       /\ IsBoundary(example, p + n)

\* ------------------------------------------------------- types/vocabulary
SRS_INTERVALS ==
  <<10 * 60, 24 * 60 * 60, 3 * 24 * 60 * 60, 7 * 24 * 60 * 60, 25 * 24 * 60 * 60>>
\* the multipliers with easy and hard exchanged
DIFFICULTY_MULTIPLIERS_Swapped == [easy |-> 7, good |-> 10, hard |-> 13]

\* the multipliers 1.3, 1.0 and 0.7 in tenths
DIFFICULTY_MULTIPLIERS == [easy |-> 13, good |-> 10, hard |-> 7]
DifficultyRating == {"easy", "good", "hard"}
MAX_QUESTIONS == 100

DaySeconds == 24 * 60 * 60
\* the instant the program is opened: day 100, 12:00
StartOfTime == 100 * DaySeconds + 12 * 60 * 60

\* a calculateNextReview whose wrong-answer interval is half the interval of
\* the new level
calculateNextReview_HalfOfLevel(currentLevel, difficulty, isCorrect, now) ==
  IF ~isCorrect
  THEN [newLevel |-> Max(1, currentLevel - 1),
        nextReview |-> now + (SRS_INTERVALS[Max(1, currentLevel - 1)] * 5) \div 10]
  ELSE LET newLevel == Min(5, currentLevel + 1)
           interval == (SRS_INTERVALS[newLevel] * DIFFICULTY_MULTIPLIERS[difficulty]) \div 10
       IN [newLevel |-> newLevel, nextReview |-> now + interval]

\* ----------------------------------------------------------------- lib/srs
calculateNextReview(currentLevel, difficulty, isCorrect, now) ==
  IF ~isCorrect
  THEN [newLevel |-> Max(1, currentLevel - 1),
        nextReview |-> now + (SRS_INTERVALS[1] * 5) \div 10]
  ELSE LET newLevel == Min(5, currentLevel + 1)
           interval == (SRS_INTERVALS[newLevel] * DIFFICULTY_MULTIPLIERS[difficulty]) \div 10
       IN [newLevel |-> newLevel, nextReview |-> now + interval]

\* todayEnd.setHours(23, 59, 59, 999)
EndOfDay(now) == now - (now % DaySeconds) + DaySeconds - 1

\* a comparator that looks at the level before the bucket
ReviewCompare_LevelFirst(a, b, now) ==
  IF a.level # b.level THEN a.level - b.level ELSE a.next_review - b.next_review

\* the comparator handed to Array.prototype.sort: <0, 0 or >0
ReviewCompare(a, b, now) ==
  LET todayEnd == EndOfDay(now)
      aOverdue == a.next_review < now
      bOverdue == b.next_review < now
      aDueToday == a.next_review <= todayEnd /\ ~aOverdue
      bDueToday == b.next_review <= todayEnd /\ ~bOverdue
      aNew == a.last_reviewed = NoDate
      bNew == b.last_reviewed = NoDate
  IN IF aOverdue /\ ~bOverdue THEN 0 - 1
     ELSE IF ~aOverdue /\ bOverdue THEN 1
     ELSE IF aDueToday /\ ~bDueToday /\ ~bOverdue THEN 0 - 1
     ELSE IF ~aDueToday /\ bDueToday /\ ~aOverdue THEN 1
     ELSE IF aNew /\ ~bNew /\ ~bOverdue /\ ~bDueToday THEN 0 - 1
     ELSE IF ~aNew /\ bNew /\ ~aOverdue /\ ~aDueToday THEN 1
     ELSE IF a.level # b.level THEN a.level - b.level
     ELSE a.next_review - b.next_review

\* an insertion that puts x before the elements it ties with
RECURSIVE InsertSorted_BeforeTies(_, _, _)
InsertSorted_BeforeTies(x, s, now) ==
  IF s = <<>> THEN <<x>>
  ELSE IF ReviewCompare(x, Head(s), now) <= 0
       THEN <<x>> \o s
       ELSE <<Head(s)>> \o InsertSorted_BeforeTies(x, Tail(s), now)

\* stable insertion of x into the sorted sequence s: after every element that
\* does not compare greater than x
RECURSIVE InsertSorted(_, _, _)
InsertSorted(x, s, now) ==
  IF s = <<>> THEN <<x>>
  ELSE IF ReviewCompare(x, Head(s), now) < 0
       THEN <<x>> \o s
       ELSE <<Head(s)>> \o InsertSorted(x, Tail(s), now)

\* [...words].sort(comparator): the sort is stable and the comparator is a
\* consistent ordering, so the result is the stable sort
RECURSIVE sortByReviewPriority(_, _)
sortByReviewPriority(words, now) ==
  IF words = <<>> THEN <<>>
  ELSE InsertSorted(words[Len(words)],
                    sortByReviewPriority(SubSeq(words, 1, Len(words) - 1), now), now)

\* a selection among the words due today only
selectWordsForSession_DueOnly(words, count, now) ==
  Slice(sortByReviewPriority(SelectSeq(words, LAMBDA w : w.next_review <= EndOfDay(now)), now),
        count)

selectWordsForSession(words, count, now) == Slice(sortByReviewPriority(words, now), count)

\* a getDueWords that leaves out the words due at this very instant
getDueWords_Strict(words, now) == SelectSeq(words, LAMBDA w : w.next_review < now)

\* the three filters of lib/srs
getDueWords(words, now) == SelectSeq(words, LAMBDA w : w.next_review <= now)
getWordsDueToday(words, now) == SelectSeq(words, LAMBDA w : w.next_review <= EndOfDay(now))
getNewWords(words) == SelectSeq(words, LAMBDA w : w.last_reviewed = NoDate)

\* ------------------------------------------------------------ the corpus
\* The content of the word with a given id; the ids stand for the UUIDs that
\* importCSV draws, which are pairwise distinct.
Content ==
  <<[vocabulary |-> <<"a">>, meaning_vi |-> <<"x">>, example_en |-> <<"A", " ", "c">>, topic |-> "t1"],
    [vocabulary |-> <<"b">>, meaning_vi |-> <<"y">>, example_en |-> <<"a", "b", "c">>, topic |-> "t1"],
    [vocabulary |-> <<"c">>, meaning_vi |-> <<"x">>, example_en |-> <<"c", ".">>, topic |-> "t2"],
    [vocabulary |-> <<"a", "b">>, meaning_vi |-> <<"z">>, example_en |-> <<"b", "a">>, topic |-> "t2"]>>

\* Scheduling fields a stored word can have when the program is opened, each
\* the outcome of a review history:
\*   fresh    imported a day ago, never reviewed
\*   mastered four correct reviews, the last one 'good' 26 days ago
\*   learning two correct reviews, the last one 'good' a day ago
\*   lapsed   one correct review, then a wrong one a minute ago
Profile(name) ==
  CASE name = "fresh" ->
         [level |-> 1, next_review |-> StartOfTime - DaySeconds, last_reviewed |-> NoDate,
          correct_count |-> 0, incorrect_count |-> 0, created_at |-> StartOfTime - DaySeconds]
    [] name = "mastered" ->
         [level |-> 5, last_reviewed |-> StartOfTime - 26 * DaySeconds,
          next_review |-> (StartOfTime - 26 * DaySeconds) + SRS_INTERVALS[5],
          correct_count |-> 4, incorrect_count |-> 0, created_at |-> StartOfTime - 40 * DaySeconds]
    [] name = "learning" ->
         [level |-> 3, last_reviewed |-> StartOfTime - DaySeconds,
          next_review |-> (StartOfTime - DaySeconds) + SRS_INTERVALS[3],
          correct_count |-> 2, incorrect_count |-> 0, created_at |-> StartOfTime - 40 * DaySeconds]
    [] name = "lapsed" ->
         [level |-> 1, last_reviewed |-> StartOfTime - 60,
          next_review |-> (StartOfTime - 60) + (SRS_INTERVALS[1] * 5) \div 10,
          correct_count |-> 1, incorrect_count |-> 1, created_at |-> StartOfTime - 40 * DaySeconds]

ProfilesOf(id) ==
  CASE id = 1 -> {"fresh", "mastered"}
    [] id = 2 -> {"fresh"}
    [] id = 3 -> {"lapsed"}
    [] OTHER -> {"learning"}

\* VocabularyWord
Word(id, name) ==
  LET c == Content[id]
      p == Profile(name)
  IN [id |-> id, vocabulary |-> c.vocabulary, meaning_vi |-> c.meaning_vi,
      example_en |-> c.example_en, topic |-> c.topic,
      level |-> p.level, next_review |-> p.next_review, last_reviewed |-> p.last_reviewed,
      correct_count |-> p.correct_count, incorrect_count |-> p.incorrect_count,
      created_at |-> p.created_at]

\* the corpora found in localStorage when the program is opened
StoredCorpora ==
  {[i \in 1..MaxWords |-> Word(i, f[i])] :
     f \in {g \in [1..MaxWords -> {"fresh", "mastered", "learning", "lapsed"}] :
              \A i \in 1..MaxWords : g[i] \in ProfilesOf(i)}}

\* ------------------------------------------------------------ lib/questions
allTypes ==
  <<"gap_fill_text", "gap_fill_audio", "context_meaning", "simple_meaning",
    "dictation", "translation">>

\* the id of a question is `${prefix}-${word.id}-${Date.now()}`: the six
\* prefixes are fixed and none is a prefix of another, and the time stamp has
\* no '-', so the string determines the triple and the triple the string
\* (an id without the word's id: `${prefix}-${Date.now()}`)
QuestionId_NoWord(prefix, wordId, now) == <<prefix, now>>
QuestionId(prefix, wordId, now) == <<prefix, wordId, now>>

generateGapFillText(word, now) ==
  IF ~TermInExample(word.vocabulary, word.example_en) THEN <<>>
  ELSE <<[id |-> QuestionId("gap-text", word.id, now), word |-> word,
          type |-> "gap_fill_text", correctAnswer |-> word.vocabulary]>>

generateGapFillAudio(word, now) ==
  IF ~TermInExample(word.vocabulary, word.example_en) THEN <<>>
  ELSE <<[id |-> QuestionId("gap-audio", word.id, now), word |-> word,
          type |-> "gap_fill_audio", correctAnswer |-> word.vocabulary]>>

generateContextMeaning(word, now) ==
  [id |-> QuestionId("context", word.id, now), word |-> word,
   type |-> "context_meaning", correctAnswer |-> word.meaning_vi]

generateSimpleMeaning(word, now) ==
  [id |-> QuestionId("simple", word.id, now), word |-> word,
   type |-> "simple_meaning", correctAnswer |-> word.meaning_vi]

generateDictation(word, now) ==
  [id |-> QuestionId("dictation", word.id, now), word |-> word,
   type |-> "dictation", correctAnswer |-> word.vocabulary]

generateTranslation(word, now) ==
  [id |-> QuestionId("translation", word.id, now), word |-> word,
   type |-> "translation", correctAnswer |-> word.vocabulary]

availableTypes(word, now) ==
  (IF generateGapFillText(word, now) # <<>> THEN <<"gap_fill_text">> ELSE <<>>)
  \o (IF generateGapFillAudio(word, now) # <<>> THEN <<"gap_fill_audio">> ELSE <<>>)
  \o <<"context_meaning", "simple_meaning", "dictation", "translation">>

\* the switch of generateQuestion
QuestionOfType(word, selectedType, now) ==
  CASE selectedType = "gap_fill_text" ->
         IF generateGapFillText(word, now) # <<>>
         THEN generateGapFillText(word, now)[1] ELSE generateSimpleMeaning(word, now)
    [] selectedType = "gap_fill_audio" ->
         IF generateGapFillAudio(word, now) # <<>>
         THEN generateGapFillAudio(word, now)[1] ELSE generateDictation(word, now)
    [] selectedType = "context_meaning" -> generateContextMeaning(word, now)
    [] selectedType = "simple_meaning" -> generateSimpleMeaning(word, now)
    [] selectedType = "dictation" -> generateDictation(word, now)
    [] selectedType = "translation" -> generateTranslation(word, now)
    [] OTHER -> generateSimpleMeaning(word, now)

\* generateQuestion: the set of questions it can return, one for each value
\* of Math.floor(Math.random() * availableTypes.length) when that is drawn
generateQuestion(word, preferredType, now) ==
  LET available == availableTypes(word, now)
      selected == IF preferredType = Null \/ preferredType \notin Range(available)
                  THEN Range(available)
                  ELSE {preferredType}
  IN {QuestionOfType(word, t, now) : t \in selected}

\* the orders [...allTypes].sort(() => Math.random() - 0.5) can produce
ShuffledTypes ==
  {p \in [1..6 -> Range(allTypes)] : \A i, j \in 1..6 : i # j => p[i] # p[j]}

\* what the loop of generateSessionQuestions reads of a shuffled order when
\* there are n words: its first min(n, 6) entries
ShuffledPrefixes == [n \in 0..6 |-> {SubSeq(p, 1, n) : p \in ShuffledTypes}]

\* the orders a session of the model draws: the reverse of the unshuffled one,
\* and one in which a choice type is followed by a gap-fill type
SessionShuffles ==
  {[i \in 1..6 |-> allTypes[7 - i]],
   <<"simple_meaning", "gap_fill_text", "dictation", "gap_fill_audio",
     "translation", "context_meaning">>}

\* a generateSessionQuestions that leaves out a word whose preferred type is
\* unavailable
RECURSIVE QuestionsWithTypes_SkipUnavailable(_, _, _)
QuestionsWithTypes_SkipUnavailable(words, shuffledTypes, now) ==
  IF words = <<>> THEN {<<>>}
  ELSE LET n == Len(words)
           preferredType == shuffledTypes[((n - 1) % 6) + 1]
           before == QuestionsWithTypes_SkipUnavailable(SubSeq(words, 1, n - 1),
                                                        shuffledTypes, now)
       IN IF preferredType \notin Range(availableTypes(words[n], now))
          THEN before
          ELSE {Append(qs, q) : qs \in before,
                                q \in generateQuestion(words[n], preferredType, now)}

\* a generateSessionQuestions that stops cycling at the last type: every word
\* after the sixth gets shuffledTypes[5]
RECURSIVE QuestionsWithTypes_NoCycle(_, _, _)
QuestionsWithTypes_NoCycle(words, shuffledTypes, now) ==
  IF words = <<>> THEN {<<>>}
  ELSE LET n == Len(words)
           preferredType == shuffledTypes[Min(n, 6)]
       IN {Append(qs, q) :
             qs \in QuestionsWithTypes_NoCycle(SubSeq(words, 1, n - 1), shuffledTypes, now),
             q \in generateQuestion(words[n], preferredType, now)}

RECURSIVE QuestionsWithTypes(_, _, _)
QuestionsWithTypes(words, shuffledTypes, now) ==
  IF words = <<>> THEN {<<>>}
  ELSE LET n == Len(words)
           preferredType == shuffledTypes[((n - 1) % 6) + 1]
       IN {Append(qs, q) :
             qs \in QuestionsWithTypes(SubSeq(words, 1, n - 1), shuffledTypes, now),
             q \in generateQuestion(words[n], preferredType, now)}

\* ------------------------------------------------ distractors and options
\* array.sort(() => Math.random() - 0.5): some permutation of the array
Shuffled(s) ==
  {[i \in 1..Len(s) |-> s[p[i]]] :
     p \in {f \in [1..Len(s) -> 1..Len(s)] : \A i, j \in 1..Len(s) : i # j => f[i] # f[j]}}

\* `${n}` for the numbers the fallback loops produce
DigitChar(n) == CASE n = 1 -> "1" [] n = 2 -> "2" [] n = 3 -> "3" [] OTHER -> "0"

\* allWords without the word, those of its topic first
potentialDistractors(word, allWords) ==
  SelectSeq(allWords, LAMBDA w : w.id # word.id /\ w.topic = word.topic)
  \o SelectSeq(allWords, LAMBDA w : w.id # word.id /\ w.topic # word.topic)

\* the for loop of getDistractorWords and getDistractorMeanings over the
\* strings of the shuffled candidates
RECURSIVE TakeDistinct(_, _, _, _)
TakeDistinct(candidates, own, count, distractors) ==
  IF candidates = <<>> \/ Len(distractors) >= count THEN distractors
  ELSE TakeDistinct(Tail(candidates), own, count,
                    IF Head(candidates) # own /\ Head(candidates) \notin Range(distractors)
                    THEN Append(distractors, Head(candidates))
                    ELSE distractors)

\* the while loop: push `${prefix}${distractors.length + 1}` until there are
\* count distractors
RECURSIVE PadWithPlaceholders(_, _, _)
PadWithPlaceholders(distractors, count, prefix) ==
  IF Len(distractors) >= count THEN distractors
  ELSE PadWithPlaceholders(
         Append(distractors, prefix \o <<DigitChar(Len(distractors) + 1)>>),
         count, prefix)

\* getDistractorWords: the lists it can return
getDistractorWords(word, allWords, count) ==
  {PadWithPlaceholders(
     TakeDistinct([i \in DOMAIN sh |-> sh[i].vocabulary], word.vocabulary, count, <<>>),
     count, <<"w", "o", "r", "d">>) :
   sh \in Shuffled(potentialDistractors(word, allWords))}

\* getDistractorMeanings: the lists it can return
getDistractorMeanings(word, allWords, count) ==
  {PadWithPlaceholders(
     TakeDistinct([i \in DOMAIN sh |-> sh[i].meaning_vi], word.meaning_vi, count, <<>>),
     count, <<"m", "e", "a", "n", "i", "n", "g", " ">>) :
   sh \in Shuffled(potentialDistractors(word, allWords))}

\* the orders in which the model lets the shuffle of the four options come
\* out: as built, reversed, and one that is neither
OptionOrders == {<<1, 2, 3, 4>>, <<4, 3, 2, 1>>, <<2, 4, 1, 3>>}
\* [answer, ...distractors].sort(() => Math.random() - 0.5), for those orders
ShuffledOptions(options) ==
  {[i \in DOMAIN options |-> options[p[i]]] : p \in OptionOrders}

\* the types whose questions carry options
OptionTypes == {"gap_fill_text", "gap_fill_audio", "context_meaning", "simple_meaning"}

\* the options of a question of the given type about the word: the option
\* lists the generator of the type can build, <<>> for a type without options
OptionsOf(word, allWords, type) ==
  IF type \in {"gap_fill_text", "gap_fill_audio"}
  THEN UNION {ShuffledOptions(<<word.vocabulary>> \o d) :
                d \in getDistractorWords(word, allWords, 3)}
  ELSE IF type \in {"context_meaning", "simple_meaning"}
  THEN UNION {ShuffledOptions(<<word.meaning_vi>> \o d) :
                d \in getDistractorMeanings(word, allWords, 3)}
  ELSE {<<>>}

\* generateSessionQuestions: the set of question lists it can return
generateSessionQuestions(words, shuffles, now) ==
  IF Len(words) = 0 THEN {<<>>}
  ELSE UNION {QuestionsWithTypes(words, st, now) : st \in shuffles}

\* ------------------------------------------------------------------ state
VARIABLES
  words,          \* useVocabulary: the corpus
  now,            \* the clock read by new Date() and Date.now()
  ledgerKey,      \* which version of useStudySession runs: "wordId" or "questionId"
  isActive, sessionWords, questions, currentIndex, startTime, sessionResult,
  answers,        \* answersRef: the ledger, in insertion order
  answeredCount, correctCount,
  prevLevels,     \* prevLevelsRef
  calls,          \* the invocations of onUpdateWord since the ledger was last emptied
  ret,            \* the last handler that ran and its return value
  reviewsLeft,    \* how many more reviews the model lets happen
  card,           \* QuestionCard: its local state
  pc,             \* StudySession: where the running event handler stands
  startedWith,    \* StudySession: the corpus of the startSession its effect last ran
  streak,         \* useVocabulary: the learning streak
  dailyStats      \* useVocabulary: the statistics of the last days, oldest first

storeVars == <<words, now>>
hookVars == <<isActive, sessionWords, questions, currentIndex, startTime, sessionResult,
              answers, answeredCount, correctCount, prevLevels>>
vars == <<words, now, ledgerKey, isActive, sessionWords, questions, currentIndex,
          startTime, sessionResult, answers, answeredCount, correctCount, prevLevels,
          calls, ret, reviewsLeft, card, pc, startedWith, streak, dailyStats>>
viewVars == <<card, pc, startedWith>>
statsVars == <<streak, dailyStats>>

\* the answers a learner gives in the model
UserAnswers == {<<"A", "!">>, <<"x">>}
TickSeconds == 6 * 60

\* questions[currentIndex] || null
HasCurrentQuestion == currentIndex < Len(questions)
currentQuestion == questions[currentIndex + 1]

\* the key of a ledger record and the word it is about
KeyOf(r) == IF ledgerKey = "wordId" THEN r.wordId ELSE r.questionId
HasAnswer(key) == \E i \in DOMAIN answers : KeyOf(answers[i]) = key
AnswerOf(key) == answers[CHOOSE i \in DOMAIN answers : KeyOf(answers[i]) = key]

\* an update that rewrites every word of the corpus, whatever its id
updateWordAfterReview_EveryWord(prev, wordId, isCorrect, difficulty, time) ==
  [i \in DOMAIN prev |->
     LET r == calculateNextReview(prev[i].level, difficulty, isCorrect, time)
     IN [prev[i] EXCEPT
           !.level = r.newLevel,
           !.next_review = r.nextReview,
           !.last_reviewed = time,
           !.correct_count = IF isCorrect THEN @ + 1 ELSE @,
           !.incorrect_count = IF isCorrect THEN @ ELSE @ + 1]]

\* an update that moves the level without the clamp of calculateNextReview
updateWordAfterReview_Unclamped(prev, wordId, isCorrect, difficulty, time) ==
  [i \in DOMAIN prev |->
     IF prev[i].id # wordId THEN prev[i]
     ELSE LET r == calculateNextReview(prev[i].level, difficulty, isCorrect, time)
          IN [prev[i] EXCEPT
                !.level = IF isCorrect THEN @ + 1 ELSE @ - 1,
                !.next_review = r.nextReview,
                !.last_reviewed = time,
                !.correct_count = IF isCorrect THEN @ + 1 ELSE @,
                !.incorrect_count = IF isCorrect THEN @ ELSE @ + 1]]

\* -------------------------------------------------------- useVocabulary
updateWordAfterReview(prev, wordId, isCorrect, difficulty, time) ==
  [i \in DOMAIN prev |->
     IF prev[i].id # wordId THEN prev[i]
     ELSE LET r == calculateNextReview(prev[i].level, difficulty, isCorrect, time)
          IN [prev[i] EXCEPT
                !.level = r.newLevel,
                !.next_review = r.nextReview,
                !.last_reviewed = time,
                !.correct_count = IF isCorrect THEN @ + 1 ELSE @,
                !.incorrect_count = IF isCorrect THEN @ ELSE @ + 1]]

clearAllWords ==
  /\ words # <<>>
  /\ words' = <<>>
  /\ ret' = [op |-> "clearAllWords"]
  /\ UNCHANGED <<now, ledgerKey, hookVars, calls, reviewsLeft>>

\* time passes between two handlers
Tick ==
  /\ now + TickSeconds <= StartOfTime + MaxTicks * TickSeconds
  /\ now' = now + TickSeconds
  /\ ret' = [op |-> "tick"]
  /\ UNCHANGED <<words, ledgerKey, hookVars, calls, reviewsLeft>>

\* the call onUpdateWord(wordId, isCorrect, difficulty) made by the hook, wired
\* to updateWordAfterReview by the page
onUpdateWord(questionId, wordId, isCorrect, difficulty) ==
  /\ words' = updateWordAfterReview(words, wordId, isCorrect, difficulty, now)
  /\ calls' = Append(calls, [questionId |-> questionId, wordId |-> wordId,
                             isCorrect |-> isCorrect, difficulty |-> difficulty])
  /\ reviewsLeft' = reviewsLeft - 1

\* ------------------------------------------------------- useStudySession
\* startSession, lines 48-51: the selection and the question lists that can be
\* generated for it, with the cap as a parameter
SessionPlans(allWords, maxQuestions, shuffles, time) ==
  LET selected == selectWordsForSession(allWords, maxQuestions, time)
  IN {[selected |-> selected, questions |-> Slice(generated, maxQuestions)] :
        generated \in generateSessionQuestions(selected, shuffles, time)}

\* the assignments of startSession once the selection is known to be non-empty
Started(selected) ==
  /\ \E plan \in SessionPlans(words, MAX_QUESTIONS, SessionShuffles, now) :
       questions' = plan.questions
  /\ prevLevels' = [id \in {selected[i].id : i \in DOMAIN selected} |->
                      (CHOOSE w \in Range(selected) : w.id = id).level]
  /\ answers' = <<>>
  /\ correctCount' = 0
  /\ answeredCount' = 0
  /\ sessionWords' = selected
  /\ currentIndex' = 0
  /\ startTime' = now
  /\ sessionResult' = <<>>
  /\ isActive' = TRUE
  /\ calls' = <<>>

\* a startSession that resets the tracking before it looks at the selection
startSession_ResetsFirst ==
  LET selected == selectWordsForSession(words, MAX_QUESTIONS, now)
  IN IF Len(selected) = 0
     THEN /\ answers' = <<>>
          /\ correctCount' = 0
          /\ answeredCount' = 0
          /\ prevLevels' = <<>>
          /\ calls' = <<>>
          /\ ret' = [op |-> "startSession", val |-> FALSE]
          /\ UNCHANGED <<storeVars, ledgerKey, isActive, sessionWords, questions,
                         currentIndex, startTime, sessionResult, reviewsLeft>>
     ELSE /\ Started(selected)
          /\ ret' = [op |-> "startSession", val |-> TRUE]
          /\ UNCHANGED <<storeVars, ledgerKey, reviewsLeft>>

startSession ==
  LET selected == selectWordsForSession(words, MAX_QUESTIONS, now)
  IN IF Len(selected) = 0
     THEN /\ ret' = [op |-> "startSession", val |-> FALSE]
          /\ UNCHANGED <<storeVars, ledgerKey, hookVars, calls, reviewsLeft>>
     ELSE /\ Started(selected)
          /\ ret' = [op |-> "startSession", val |-> TRUE]
          /\ UNCHANGED <<storeVars, ledgerKey, reviewsLeft>>

\* a submitAnswer whose store update writes into the word object itself, which
\* the session words and the questions of the session share with the store
submitAnswerByWordId_SharedObject(userAnswer, difficulty) ==
  /\ ledgerKey = "wordId"
  /\ IF ~HasCurrentQuestion
     THEN /\ ret' = [op |-> "submitAnswer", val |-> FALSE]
          /\ UNCHANGED <<storeVars, ledgerKey, hookVars, calls, reviewsLeft>>
     ELSE LET wordId == currentQuestion.word.id
              isCorrect == checkAnswer(userAnswer, currentQuestion.correctAnswer)
              written(w) ==
                IF w.id # wordId THEN w
                ELSE updateWordAfterReview(<<w>>, wordId, isCorrect, difficulty, now)[1]
          IN /\ IF ~HasAnswer(wordId)
                THEN /\ reviewsLeft > 0
                     /\ answers' = Append(answers, [wordId |-> wordId, isCorrect |-> isCorrect,
                                                    difficulty |-> difficulty])
                     /\ answeredCount' = answeredCount + 1
                     /\ correctCount' = IF isCorrect THEN correctCount + 1 ELSE correctCount
                     /\ onUpdateWord(currentQuestion.id, wordId, isCorrect, difficulty)
                     /\ sessionWords' = [i \in DOMAIN sessionWords |-> written(sessionWords[i])]
                     /\ questions' = [i \in DOMAIN questions |->
                                        [questions[i] EXCEPT !.word = written(@)]]
                ELSE UNCHANGED <<answers, answeredCount, correctCount, words, calls,
                                 reviewsLeft, sessionWords, questions>>
             /\ ret' = [op |-> "submitAnswer", val |-> isCorrect]
             /\ UNCHANGED <<now, ledgerKey, isActive, currentIndex,
                            startTime, sessionResult, prevLevels>>

\* hooks/useStudySession.ts: the ledger keyed by word id
submitAnswerByWordId(userAnswer, difficulty) ==
  /\ ledgerKey = "wordId"
  /\ IF ~HasCurrentQuestion
     THEN /\ ret' = [op |-> "submitAnswer", val |-> FALSE]
          /\ UNCHANGED <<storeVars, ledgerKey, hookVars, calls, reviewsLeft>>
     ELSE LET wordId == currentQuestion.word.id
              isCorrect == checkAnswer(userAnswer, currentQuestion.correctAnswer)
          IN /\ IF ~HasAnswer(wordId)
                THEN /\ reviewsLeft > 0
                     /\ answers' = Append(answers, [wordId |-> wordId, isCorrect |-> isCorrect,
                                                    difficulty |-> difficulty])
                     /\ answeredCount' = answeredCount + 1
                     /\ correctCount' = IF isCorrect THEN correctCount + 1 ELSE correctCount
                     /\ onUpdateWord(currentQuestion.id, wordId, isCorrect, difficulty)
                ELSE UNCHANGED <<answers, answeredCount, correctCount, words, calls, reviewsLeft>>
             /\ ret' = [op |-> "submitAnswer", val |-> isCorrect]
             /\ UNCHANGED <<now, ledgerKey, isActive, sessionWords, questions, currentIndex,
                            startTime, sessionResult, prevLevels>>

\* a submitAnswer without the already-answered guard: it records again
submitAnswerByQuestionId_NoGuard(userAnswer, difficulty) ==
  /\ ledgerKey = "questionId"
  /\ IF ~HasCurrentQuestion
     THEN /\ ret' = [op |-> "submitAnswer", val |-> FALSE]
          /\ UNCHANGED <<storeVars, ledgerKey, hookVars, calls, reviewsLeft>>
     ELSE LET questionId == currentQuestion.id
              wordId == currentQuestion.word.id
              isCorrect == checkAnswer(userAnswer, currentQuestion.correctAnswer)
              record == [questionId |-> questionId, wordId |-> wordId,
                         userAnswer |-> userAnswer,
                         correctAnswer |-> currentQuestion.correctAnswer,
                         isCorrect |-> isCorrect, difficulty |-> difficulty,
                         timestamp |-> now]
          IN /\ reviewsLeft > 0
             /\ answers' = IF HasAnswer(questionId)
                           THEN [i \in DOMAIN answers |->
                                   IF answers[i].questionId = questionId
                                   THEN record ELSE answers[i]]
                           ELSE Append(answers, record)
             /\ answeredCount' = answeredCount + 1
             /\ correctCount' = IF isCorrect THEN correctCount + 1 ELSE correctCount
             /\ onUpdateWord(questionId, wordId, isCorrect, difficulty)
             /\ ret' = [op |-> "submitAnswer", val |-> isCorrect]
             /\ UNCHANGED <<now, ledgerKey, isActive, sessionWords, questions,
                            currentIndex, startTime, sessionResult, prevLevels>>

\* hooks/useVocabulary.ts: the ledger keyed by question id
submitAnswerByQuestionId(userAnswer, difficulty) ==
  /\ ledgerKey = "questionId"
  /\ IF ~HasCurrentQuestion
     THEN /\ ret' = [op |-> "submitAnswer", val |-> FALSE]
          /\ UNCHANGED <<storeVars, ledgerKey, hookVars, calls, reviewsLeft>>
     ELSE LET questionId == currentQuestion.id
              wordId == currentQuestion.word.id
          IN IF HasAnswer(questionId)
             THEN /\ ret' = [op |-> "submitAnswer", val |-> AnswerOf(questionId).isCorrect]
                  /\ UNCHANGED <<storeVars, ledgerKey, hookVars, calls, reviewsLeft>>
             ELSE LET isCorrect == checkAnswer(userAnswer, currentQuestion.correctAnswer)
                      record == [questionId |-> questionId, wordId |-> wordId,
                                 userAnswer |-> userAnswer,
                                 correctAnswer |-> currentQuestion.correctAnswer,
                                 isCorrect |-> isCorrect, difficulty |-> difficulty,
                                 timestamp |-> now]
                  IN /\ reviewsLeft > 0
                     /\ answers' = Append(answers, record)
                     /\ answeredCount' = answeredCount + 1
                     /\ correctCount' = IF isCorrect THEN correctCount + 1 ELSE correctCount
                     /\ onUpdateWord(questionId, wordId, isCorrect, difficulty)
                     /\ ret' = [op |-> "submitAnswer", val |-> isCorrect]
                     /\ UNCHANGED <<now, ledgerKey, isActive, sessionWords, questions,
                                    currentIndex, startTime, sessionResult, prevLevels>>

\* a skip that records whether or not the word has an answer
skipQuestionByWordId_NoGuard ==
  /\ ledgerKey = "wordId"
  /\ ret' = [op |-> "skipQuestion"]
  /\ IF ~HasCurrentQuestion
     THEN UNCHANGED <<storeVars, ledgerKey, hookVars, calls, reviewsLeft>>
     ELSE LET wordId == currentQuestion.word.id
              record == [wordId |-> wordId, isCorrect |-> FALSE, difficulty |-> "hard"]
          IN /\ reviewsLeft > 0
             /\ answers' = IF HasAnswer(wordId)
                           THEN [i \in DOMAIN answers |->
                                   IF answers[i].wordId = wordId THEN record ELSE answers[i]]
                           ELSE Append(answers, record)
             /\ answeredCount' = answeredCount + 1
             /\ onUpdateWord(currentQuestion.id, wordId, FALSE, "hard")
             /\ UNCHANGED <<now, ledgerKey, isActive, sessionWords, questions, currentIndex,
                            startTime, sessionResult, correctCount, prevLevels>>

skipQuestionByWordId ==
  /\ ledgerKey = "wordId"
  /\ ret' = [op |-> "skipQuestion"]
  /\ IF ~HasCurrentQuestion
     THEN UNCHANGED <<storeVars, ledgerKey, hookVars, calls, reviewsLeft>>
     ELSE LET wordId == currentQuestion.word.id
          IN /\ IF ~HasAnswer(wordId)
                THEN /\ reviewsLeft > 0
                     /\ answers' = Append(answers, [wordId |-> wordId, isCorrect |-> FALSE,
                                                    difficulty |-> "hard"])
                     /\ answeredCount' = answeredCount + 1
                     /\ onUpdateWord(currentQuestion.id, wordId, FALSE, "hard")
                ELSE UNCHANGED <<answers, answeredCount, words, calls, reviewsLeft>>
             /\ UNCHANGED <<now, ledgerKey, isActive, sessionWords, questions, currentIndex,
                            startTime, sessionResult, correctCount, prevLevels>>

skipQuestionByQuestionId ==
  /\ ledgerKey = "questionId"
  /\ ret' = [op |-> "skipQuestion"]
  /\ IF ~HasCurrentQuestion
     THEN UNCHANGED <<storeVars, ledgerKey, hookVars, calls, reviewsLeft>>
     ELSE LET questionId == currentQuestion.id
              wordId == currentQuestion.word.id
              record == [questionId |-> questionId, wordId |-> wordId, userAnswer |-> <<>>,
                         correctAnswer |-> currentQuestion.correctAnswer,
                         isCorrect |-> FALSE, difficulty |-> "hard", timestamp |-> now]
          IN IF HasAnswer(questionId)
             THEN UNCHANGED <<storeVars, ledgerKey, hookVars, calls, reviewsLeft>>
             ELSE /\ reviewsLeft > 0
                  /\ answers' = Append(answers, record)
                  /\ answeredCount' = answeredCount + 1
                  /\ onUpdateWord(questionId, wordId, FALSE, "hard")
                  /\ UNCHANGED <<now, ledgerKey, isActive, sessionWords, questions,
                                 currentIndex, startTime, sessionResult, correctCount,
                                 prevLevels>>

\* a nextQuestion that does not look at the number of questions
nextQuestion_NoBound ==
  /\ currentIndex' = currentIndex + 1
  /\ ret' = [op |-> "nextQuestion", val |-> TRUE]
  /\ UNCHANGED <<storeVars, ledgerKey, isActive, sessionWords, questions, startTime,
                 sessionResult, answers, answeredCount, correctCount, prevLevels, calls,
                 reviewsLeft>>

nextQuestion ==
  /\ IF currentIndex < Len(questions) - 1
     THEN /\ currentIndex' = currentIndex + 1
          /\ ret' = [op |-> "nextQuestion", val |-> TRUE]
     ELSE /\ currentIndex' = currentIndex
          /\ ret' = [op |-> "nextQuestion", val |-> FALSE]
  /\ UNCHANGED <<storeVars, ledgerKey, isActive, sessionWords, questions, startTime,
                 sessionResult, answers, answeredCount, correctCount, prevLevels, calls,
                 reviewsLeft>>

\* sessionWords.find(w => w.id === wordId): the word, or nothing
FindSessionWord(wordId) == SelectSeq(sessionWords, LAMBDA w : w.id = wordId)
\* a previous level that is always the default of `|| 1`
PrevLevel_Default(wordId) == 1

\* prevLevelsRef.current.get(wordId) || 1
PrevLevel(wordId) == IF wordId \in DOMAIN prevLevels THEN prevLevels[wordId] ELSE 1

\* the words pushed to a list by the forEach over the ledger: those of the
\* records at the given indices, in insertion order, whose word is found
WordsOfRecords(indices) ==
  LET picked == SelectSeq([i \in DOMAIN answers |-> i],
                          LAMBDA i : /\ i \in indices
                                     /\ FindSessionWord(answers[i].wordId) # <<>>)
  IN [k \in DOMAIN picked |-> FindSessionWord(answers[picked[k]].wordId)[1]]

\* accuracy is the fraction num/den: (correct / answered) * 100, or 0;
\* duration is in seconds
Accuracy(correct, answered) ==
  IF answered > 0 THEN [num |-> correct * 100, den |-> answered] ELSE [num |-> 0, den |-> 1]

calculateResultByWordId ==
  LET down == WordsOfRecords({i \in DOMAIN answers : ~answers[i].isCorrect})
  IN [totalQuestions |-> answeredCount,
      correctAnswers |-> correctCount,
      accuracy |-> Accuracy(correctCount, answeredCount),
      wordsLeveledUp |-> WordsOfRecords({i \in DOMAIN answers :
                                           /\ answers[i].isCorrect
                                           /\ PrevLevel(answers[i].wordId) < 5}),
      wordsLeveledDown |-> down,
      incorrectWords |-> down,
      duration |-> IF startTime # NoDate THEN now - startTime ELSE 0]

\* a calculateResult that reports the generated questions as the total
calculateResultByQuestionId_AllQuestions ==
  LET totalCorrect == Len(SelectSeq(answers, LAMBDA r : r.isCorrect))
  IN [totalQuestions |-> Len(questions),
      correctAnswers |-> totalCorrect,
      accuracy |-> Accuracy(totalCorrect, Len(questions)),
      wordsLeveledUp |-> <<>>,
      wordsLeveledDown |-> <<>>,
      incorrectWords |-> <<>>,
      duration |-> IF startTime # NoDate THEN now - startTime ELSE 0]

calculateResultByQuestionId ==
  LET totalAnswered == Len(answers)
      totalCorrect == Len(SelectSeq(answers, LAMBDA r : r.isCorrect))
      \* !processedWordIds.has(record.wordId)
      FirstOfWord(i) == \A j \in 1..(i - 1) : answers[j].wordId # answers[i].wordId
      down == WordsOfRecords({i \in DOMAIN answers : FirstOfWord(i) /\ ~answers[i].isCorrect})
  IN [totalQuestions |-> totalAnswered,
      correctAnswers |-> totalCorrect,
      accuracy |-> Accuracy(totalCorrect, totalAnswered),
      wordsLeveledUp |-> WordsOfRecords({i \in DOMAIN answers :
                                           /\ FirstOfWord(i)
                                           /\ answers[i].isCorrect
                                           /\ PrevLevel(answers[i].wordId) < 5}),
      wordsLeveledDown |-> down,
      incorrectWords |-> down,
      duration |-> IF startTime # NoDate THEN now - startTime ELSE 0]

calculateResult ==
  IF ledgerKey = "wordId" THEN calculateResultByWordId ELSE calculateResultByQuestionId

endSession ==
  /\ sessionResult' = <<calculateResult>>
  /\ isActive' = FALSE
  /\ ret' = [op |-> "endSession", val |-> calculateResult]
  /\ UNCHANGED <<storeVars, ledgerKey, sessionWords, questions, currentIndex, startTime,
                 answers, answeredCount, correctCount, prevLevels, calls, reviewsLeft>>

\* a resetSession that keeps the answer ledger
Cleared_KeepsLedger ==
  /\ isActive' = FALSE
  /\ sessionWords' = <<>>
  /\ questions' = <<>>
  /\ currentIndex' = 0
  /\ startTime' = NoDate
  /\ sessionResult' = <<>>
  /\ answers' = answers
  /\ correctCount' = 0
  /\ answeredCount' = 0
  /\ prevLevels' = <<>>
  /\ calls' = <<>>

\* the assignments of resetSession
Cleared ==
  /\ isActive' = FALSE
  /\ sessionWords' = <<>>
  /\ questions' = <<>>
  /\ currentIndex' = 0
  /\ startTime' = NoDate
  /\ sessionResult' = <<>>
  /\ answers' = <<>>
  /\ correctCount' = 0
  /\ answeredCount' = 0
  /\ prevLevels' = <<>>
  /\ calls' = <<>>

resetSession ==
  /\ Cleared
  /\ ret' = [op |-> "resetSession"]
  /\ UNCHANGED <<storeVars, ledgerKey, reviewsLeft>>

\* StudySession: the onRestart of the summary, resetSession() then
\* startSession() in one handler; the later assignments win
onRestart ==
  /\ sessionResult # <<>>
  /\ LET selected == selectWordsForSession(words, MAX_QUESTIONS, now)
     IN IF Len(selected) = 0 THEN Cleared ELSE Started(selected)
  /\ ret' = [op |-> "onRestart"]
  /\ UNCHANGED <<storeVars, ledgerKey, reviewsLeft>>

\* ------------------------------------------------------- the specification
\* QuestionCard, the useState initial values; kind tells the two versions of
\* the component apart, questionId is the question.id its reset effect last ran for
InitialCard(kind) ==
  [kind |-> kind, questionId |-> <<>>, answer |-> <<>>, isAnswered |-> FALSE,
   isCorrect |-> <<>>, showDifficulty |-> FALSE]

\* useVocabulary, the useState initial values of streak and dailyStats
NoStats ==
  /\ streak = [current_streak |-> 0, longest_streak |-> 0, last_study_date |-> NoDate]
  /\ dailyStats = <<>>

\* no StudySession is mounted: the hook is driven directly
NoView ==
  /\ card = InitialCard("continue")
  /\ pc = "idle"
  /\ startedWith = <<>>
  /\ NoStats

Init ==
  /\ words \in StoredCorpora
  /\ now = StartOfTime
  /\ ledgerKey \in {"wordId", "questionId"}
  /\ isActive = FALSE
  /\ sessionWords = <<>>
  /\ questions = <<>>
  /\ currentIndex = 0
  /\ startTime = NoDate
  /\ sessionResult = <<>>
  /\ answers = <<>>
  /\ answeredCount = 0
  /\ correctCount = 0
  /\ prevLevels = <<>>
  /\ calls = <<>>
  /\ ret = [op |-> "init"]
  /\ reviewsLeft = MaxReviews
  /\ NoView

Next ==
  \/ startSession /\ UNCHANGED <<viewVars, statsVars>>
  \/ \E a \in UserAnswers, d \in DifficultyRating :
       submitAnswerByWordId(a, d) /\ UNCHANGED <<viewVars, statsVars>>
  \/ \E a \in UserAnswers, d \in DifficultyRating :
       submitAnswerByQuestionId(a, d) /\ UNCHANGED <<viewVars, statsVars>>
  \/ skipQuestionByWordId /\ UNCHANGED <<viewVars, statsVars>>
  \/ skipQuestionByQuestionId /\ UNCHANGED <<viewVars, statsVars>>
  \/ nextQuestion /\ UNCHANGED <<viewVars, statsVars>>
  \/ endSession /\ UNCHANGED <<viewVars, statsVars>>
  \/ resetSession /\ UNCHANGED <<viewVars, statsVars>>
  \/ onRestart /\ UNCHANGED <<viewVars, statsVars>>
  \/ clearAllWords /\ UNCHANGED <<viewVars, statsVars>>
  \/ Tick /\ UNCHANGED <<viewVars, statsVars>>

Spec == Init /\ [][Next]_vars

\* ------------------------------------------- the review-outcome update alone
\* the hook before any session
Unstarted ==
  /\ isActive = FALSE
  /\ sessionWords = <<>>
  /\ questions = <<>>
  /\ currentIndex = 0
  /\ startTime = NoDate
  /\ sessionResult = <<>>
  /\ answers = <<>>
  /\ answeredCount = 0
  /\ correctCount = 0
  /\ prevLevels = <<>>
  /\ NoView

\* one stored word, with each of the scheduling profiles
InitReview ==
  /\ words \in {<<Word(1, p)>> : p \in {"fresh", "mastered", "learning", "lapsed"}}
  /\ now = StartOfTime
  /\ ledgerKey = "wordId"
  /\ Unstarted
  /\ calls = <<>>
  /\ ret = [op |-> "init"]
  /\ reviewsLeft = MaxOutcomes

\* updateWordAfterReview(wordId, isCorrect, difficulty) called on the store
Review(wordId, isCorrect, difficulty) ==
  /\ reviewsLeft > 0
  /\ \E i \in DOMAIN words :
       /\ words[i].id = wordId
       /\ ret' = [op |-> "review", wordId |-> wordId, level |-> words[i].level,
                  isCorrect |-> isCorrect, difficulty |-> difficulty, at |-> now,
                  out |-> calculateNextReview(words[i].level, difficulty, isCorrect, now)]
  /\ onUpdateWord(Null, wordId, isCorrect, difficulty)
  /\ UNCHANGED <<now, ledgerKey, hookVars>>

NextReview ==
  \/ \E i \in DOMAIN words, c \in BOOLEAN, d \in DifficultyRating :
       Review(words[i].id, c, d) /\ UNCHANGED <<viewVars, statsVars>>
  \/ Tick /\ UNCHANGED <<viewVars, statsVars>>

SpecReview == InitReview /\ [][NextReview]_vars

\* ------------------------------------------------- the scheduler alone
\* the next_review instants, levels and last_reviewed instants of the words
\* handed to the scheduler: overdue twice, due at this very instant, due at the
\* last instant of the day, due tomorrow and the day after
SortInstants ==
  {StartOfTime - 120, StartOfTime - 60, StartOfTime, EndOfDay(StartOfTime),
   EndOfDay(StartOfTime) + 1, EndOfDay(StartOfTime) + DaySeconds}
SortLevels == {1, 3}
SortReviewed == {NoDate, StartOfTime - DaySeconds}

SortItem(id, level, next_review, last_reviewed) ==
  [Word(((id - 1) % Len(Content)) + 1, "fresh") EXCEPT
     !.id = id, !.level = level, !.next_review = next_review,
     !.last_reviewed = last_reviewed]

SortInputs ==
  UNION {{[i \in 1..n |-> SortItem(i, f[i][1], f[i][2], f[i][3])] :
            f \in [1..n -> SortLevels \X SortInstants \X SortReviewed]} :
         n \in 0..MaxSortLen}

InitSort ==
  /\ words \in SortInputs
  /\ now = StartOfTime
  /\ ledgerKey = "wordId"
  /\ Unstarted
  /\ calls = <<>>
  /\ ret = [op |-> "init"]
  /\ reviewsLeft = 0

\* sortByReviewPriority(words)
Sort ==
  /\ ret' = [op |-> "sort", out |-> sortByReviewPriority(words, now)]
  /\ UNCHANGED <<storeVars, ledgerKey, hookVars, calls, reviewsLeft>>

\* selectWordsForSession(words, count)
Select(count) ==
  /\ ret' = [op |-> "select", count |-> count,
             out |-> selectWordsForSession(words, count, now)]
  /\ UNCHANGED <<storeVars, ledgerKey, hookVars, calls, reviewsLeft>>

NextSort ==
  \/ Sort /\ UNCHANGED <<viewVars, statsVars>>
  \/ \E count \in 0..(MaxSortLen + 1) : Select(count) /\ UNCHANGED <<viewVars, statsVars>>

SpecSort == InitSort /\ [][NextSort]_vars

\* ------------------------------------------------- the generator alone
\* the contents of the words of a corpus: two words that share term and
\* meaning, two whose term and meaning are placeholder strings, one whose
\* term is not a whole word of its example
OptionContent ==
  <<Content[1],
    [vocabulary |-> <<"a">>, meaning_vi |-> <<"x">>, example_en |-> <<"a">>, topic |-> "t2"],
    [vocabulary |-> <<"w", "o", "r", "d", "1">>,
     meaning_vi |-> <<"m", "e", "a", "n", "i", "n", "g", " ", "1">>,
     example_en |-> <<"w", "o", "r", "d", "1">>, topic |-> "t1"],
    [vocabulary |-> <<"w", "o", "r", "d", "2">>,
     meaning_vi |-> <<"m", "e", "a", "n", "i", "n", "g", " ", "2">>,
     example_en |-> <<"a", " ", "w", "o", "r", "d", "2">>, topic |-> "t2"],
    Content[2]>>

OptionWord(k) ==
  [Word(1, "fresh") EXCEPT
     !.id = k, !.vocabulary = OptionContent[k].vocabulary,
     !.meaning_vi = OptionContent[k].meaning_vi,
     !.example_en = OptionContent[k].example_en, !.topic = OptionContent[k].topic]

\* the corpora: the words of some contents, at most MaxCorpus of them
OptionCorpora ==
  {c \in UNION {[1..n -> DOMAIN OptionContent] : n \in 1..MaxCorpus} :
     \A i, j \in DOMAIN c : i < j => c[i] < c[j]}

InitOptions ==
  /\ words \in {[i \in DOMAIN c |-> OptionWord(c[i])] : c \in OptionCorpora}
  /\ now = StartOfTime
  /\ ledgerKey = "wordId"
  /\ Unstarted
  /\ calls = <<>>
  /\ ret = [op |-> "init"]
  /\ reviewsLeft = 0

\* generateQuestion(word, allWords, preferredType) with the options it builds
Generate(i, preferredType) ==
  /\ \E q \in generateQuestion(words[i], preferredType, now) :
       \E o \in OptionsOf(q.word, words, q.type) :
         ret' = [op |-> "generate", preferredType |-> preferredType,
                 type |-> q.type, wordId |-> q.word.id,
                 correctAnswer |-> q.correctAnswer, options |-> o]
  /\ UNCHANGED <<storeVars, ledgerKey, hookVars, calls, reviewsLeft>>

NextOptions ==
  \E i \in DOMAIN words, t \in Range(allTypes) : Generate(i, t) /\ UNCHANGED <<viewVars, statsVars>>

SpecOptions == InitOptions /\ [][NextOptions]_vars

\* ------------------------------------------- generateQuestion on one word
\* the terms and example sentences of the words handed to generateQuestion:
\* the term as a word of the sentence in another case, inside a longer word,
\* absent, with its letters in another order, with a '.' where the sentence
\* has a letter, with a '.' where the sentence has one, a letter outside
\* ASCII that is the whole sentence, and the same letter absent
GenerateContent ==
  <<[vocabulary |-> <<"a">>, example_en |-> <<"A", " ", "c">>],
    [vocabulary |-> <<"b">>, example_en |-> <<"a", "b", "c">>],
    [vocabulary |-> <<"a">>, example_en |-> <<"x">>],
    [vocabulary |-> <<"a", "b">>, example_en |-> <<"b", " ", "a">>],
    [vocabulary |-> <<"a", ".", "c">>, example_en |-> <<"a", "b", "c">>],
    [vocabulary |-> <<"a", ".", "c">>, example_en |-> <<"x", " ", "a", ".", "c">>],
    [vocabulary |-> <<"é">>, example_en |-> <<"é">>],
    [vocabulary |-> <<"é">>, example_en |-> <<"a">>]>>

GenerateWord(k) ==
  [Word(1, "fresh") EXCEPT
     !.id = k, !.vocabulary = GenerateContent[k].vocabulary,
     !.example_en = GenerateContent[k].example_en]

InitGenerate ==
  /\ words \in {<<GenerateWord(k)>> : k \in DOMAIN GenerateContent}
  /\ now = StartOfTime
  /\ ledgerKey = "wordId"
  /\ Unstarted
  /\ calls = <<>>
  /\ ret = [op |-> "init"]
  /\ reviewsLeft = 0

\* generateQuestion(word, allWords, preferredType), preferredType given or not
NextGenerate ==
  \E i \in DOMAIN words, t \in Range(allTypes) \cup {Null} :
    Generate(i, t) /\ UNCHANGED <<viewVars, statsVars>>

SpecGenerate == InitGenerate /\ [][NextGenerate]_vars

\* ------------------------------------------------- the answer checker alone
\* the characters of the answers: letters in both cases, letters outside
\* ASCII, a punctuation mark and a space
AnswerChars == {"a", "A", "b", "é", "ñ", "!", " "}
StringsUpTo(n) == UNION {[1..k -> AnswerChars] : k \in 0..n}

\* the answer typed and the canonical answer of the question
InitCheck ==
  /\ words = <<>>
  /\ now = StartOfTime
  /\ ledgerKey = "wordId"
  /\ Unstarted
  /\ calls = <<>>
  /\ ret \in {[op |-> "input", userAnswer |-> u, correctAnswer |-> c] :
                u \in StringsUpTo(MaxAnswerLen), c \in StringsUpTo(2)}
  /\ reviewsLeft = 0

\* checkAnswer(userAnswer, correctAnswer)
CheckAnswer ==
  /\ ret.op = "input"
  /\ ret' = [op |-> "checkAnswer", userAnswer |-> ret.userAnswer,
             correctAnswer |-> ret.correctAnswer,
             val |-> checkAnswer(ret.userAnswer, ret.correctAnswer)]
  /\ UNCHANGED <<storeVars, ledgerKey, hookVars, calls, reviewsLeft>>

NextCheck == CheckAnswer /\ UNCHANGED <<viewVars, statsVars>>

SpecCheck == InitCheck /\ [][NextCheck]_vars

\* ------------------------------- the scheduler called with any arguments
\* the levels and counts a caller can pass: the type of both is number
ArgumentLevels == (0 - 1)..7
ArgumentCounts == (0 - 2)..3

InitArguments ==
  /\ words \in {s \in SortInputs : Len(s) <= 2}
  /\ now = StartOfTime
  /\ ledgerKey = "wordId"
  /\ Unstarted
  /\ calls = <<>>
  /\ ret = [op |-> "init"]
  /\ reviewsLeft = 0

\* calculateNextReview(currentLevel, difficulty, isCorrect): no path of the
\* function throws; SRS_INTERVALS[newLevel] of a level that is not a key is
\* undefined, the interval NaN and the date an Invalid Date
CallCalculateNextReview(currentLevel, difficulty, isCorrect) ==
  /\ ret' = [op |-> "calculateNextReview", level |-> currentLevel,
             difficulty |-> difficulty, isCorrect |-> isCorrect,
             outcome |-> "returned",
             out |-> IF isCorrect /\ Min(5, currentLevel + 1) \notin DOMAIN SRS_INTERVALS
                     THEN [newLevel |-> Min(5, currentLevel + 1), nextReview |-> NoDate]
                     ELSE calculateNextReview(currentLevel, difficulty, isCorrect, now)]
  /\ UNCHANGED <<storeVars, ledgerKey, hookVars, calls, reviewsLeft>>

\* selectWordsForSession(words, count): no path of the function throws
CallSelectWordsForSession(count) ==
  /\ ret' = [op |-> "selectWordsForSession", count |-> count,
             outcome |-> "returned",
             out |-> selectWordsForSession(words, count, now)]
  /\ UNCHANGED <<storeVars, ledgerKey, hookVars, calls, reviewsLeft>>

NextArguments ==
  \/ \E l \in ArgumentLevels, d \in DifficultyRating, c \in BOOLEAN :
       CallCalculateNextReview(l, d, c) /\ UNCHANGED <<viewVars, statsVars>>
  \/ \E count \in ArgumentCounts : CallSelectWordsForSession(count) /\ UNCHANGED <<viewVars, statsVars>>

SpecArguments == InitArguments /\ [][NextArguments]_vars

\* ------------------------------------------------- the distractors alone
\* words with pairwise different terms and meanings, four of one topic and
\* two of another
TopicContent ==
  <<[vocabulary |-> <<"a">>, meaning_vi |-> <<"d">>, topic |-> "t1"],
    [vocabulary |-> <<"b">>, meaning_vi |-> <<"e">>, topic |-> "t1"],
    [vocabulary |-> <<"c">>, meaning_vi |-> <<"g">>, topic |-> "t1"],
    [vocabulary |-> <<"x">>, meaning_vi |-> <<"i">>, topic |-> "t1"],
    [vocabulary |-> <<"y">>, meaning_vi |-> <<"m">>, topic |-> "t2"],
    [vocabulary |-> <<"z">>, meaning_vi |-> <<"n">>, topic |-> "t2"]>>

TopicWord(k) ==
  [Word(1, "fresh") EXCEPT
     !.id = k, !.vocabulary = TopicContent[k].vocabulary,
     !.meaning_vi = TopicContent[k].meaning_vi, !.topic = TopicContent[k].topic]

\* the corpora: the words of some contents, at most MaxTopicCorpus of them
TopicCorpora ==
  {c \in UNION {[1..n -> DOMAIN TopicContent] : n \in 1..MaxTopicCorpus} :
     \A i, j \in DOMAIN c : i < j => c[i] < c[j]}

InitDistractors ==
  /\ words \in {[i \in DOMAIN c |-> TopicWord(c[i])] : c \in TopicCorpora}
  /\ now = StartOfTime
  /\ ledgerKey = "wordId"
  /\ Unstarted
  /\ calls = <<>>
  /\ ret = [op |-> "init"]
  /\ reviewsLeft = 0

\* getDistractorWords(word, allWords, 3), as the generators call it
DistractorWords(i) ==
  /\ \E d \in getDistractorWords(words[i], words, 3) :
       ret' = [op |-> "getDistractorWords", wordId |-> words[i].id, out |-> d]
  /\ UNCHANGED <<storeVars, ledgerKey, hookVars, calls, reviewsLeft>>

\* getDistractorMeanings(word, allWords, 3), as the generators call it
DistractorMeanings(i) ==
  /\ \E d \in getDistractorMeanings(words[i], words, 3) :
       ret' = [op |-> "getDistractorMeanings", wordId |-> words[i].id, out |-> d]
  /\ UNCHANGED <<storeVars, ledgerKey, hookVars, calls, reviewsLeft>>

NextDistractors ==
  \/ \E i \in DOMAIN words : DistractorWords(i) /\ UNCHANGED <<viewVars, statsVars>>
  \/ \E i \in DOMAIN words : DistractorMeanings(i) /\ UNCHANGED <<viewVars, statsVars>>

SpecDistractors == InitDistractors /\ [][NextDistractors]_vars

\* ------------------------------------------ generateSessionQuestions alone
\* the words of a batch: each has its term as a word of its example sentence
\* (the content of word 1) or inside a longer word (the content of word 2)
BatchWord(id, hasTerm) ==
  [Word(IF hasTerm THEN 1 ELSE 2, "fresh") EXCEPT !.id = id]

\* the batches: up to MaxBatch words, at most MaxLacking of them without
\* their term in the example sentence
Batches ==
  UNION {{[i \in 1..n |-> BatchWord(i, i \notin lacking)] :
            lacking \in {l \in SUBSET (1..n) : Cardinality(l) <= MaxLacking}} :
         n \in 0..MaxBatch}

InitBatch ==
  /\ words \in Batches
  /\ now = StartOfTime
  /\ ledgerKey = "wordId"
  /\ Unstarted
  /\ calls = <<>>
  /\ ret = [op |-> "init"]
  /\ reviewsLeft = 0

\* generateSessionQuestions(words, allWords), once on the batch, with the
\* order the shuffle of the types came out in
GenerateSession ==
  /\ ret.op = "init"
  /\ \E shuffledTypes \in ShuffledTypes :
       \E qs \in generateSessionQuestions(words, {shuffledTypes}, now) :
         ret' = [op |-> "generateSessionQuestions", shuffledTypes |-> shuffledTypes,
                 wordIds |-> [i \in DOMAIN qs |-> qs[i].word.id],
                 types |-> [i \in DOMAIN qs |-> qs[i].type]]
  /\ UNCHANGED <<storeVars, ledgerKey, hookVars, calls, reviewsLeft>>

NextBatch == GenerateSession /\ UNCHANGED <<viewVars, statsVars>>

SpecBatch == InitBatch /\ [][NextBatch]_vars

\* ------------------------------------------------- the three filters alone
\* getDueWords(words)
DueWords ==
  /\ ret' = [op |-> "getDueWords", out |-> getDueWords(words, now)]
  /\ UNCHANGED <<storeVars, ledgerKey, hookVars, calls, reviewsLeft>>

\* getWordsDueToday(words)
WordsDueToday ==
  /\ ret' = [op |-> "getWordsDueToday", out |-> getWordsDueToday(words, now)]
  /\ UNCHANGED <<storeVars, ledgerKey, hookVars, calls, reviewsLeft>>

\* getNewWords(words)
NewWords ==
  /\ ret' = [op |-> "getNewWords", out |-> getNewWords(words)]
  /\ UNCHANGED <<storeVars, ledgerKey, hookVars, calls, reviewsLeft>>

NextFilters ==
  \/ DueWords /\ UNCHANGED <<viewVars, statsVars>>
  \/ WordsDueToday /\ UNCHANGED <<viewVars, statsVars>>
  \/ NewWords /\ UNCHANGED <<viewVars, statsVars>>

SpecFilters == InitSort /\ [][NextFilters]_vars

\* ------------------------------------------------------- lib/csv-parser
\* A CSV text is its header line, as the column names parseCSVLine finds in
\* it, and the lines after it, each as the cells parseCSVLine finds in it.
\* lines.filter(line => line.trim()): a line of one cell of whitespace is dropped
IsBlankLine(line) == Len(line) = 1 /\ trim(line[1]) = <<>>

\* row[header.trim()] = values[index]?.trim() || '', read as row.name?.trim()
CellOf(header, line, name) ==
  IF \E index \in DOMAIN header : header[index] = name /\ index <= Len(line)
  THEN trim(line[CHOOSE index \in DOMAIN header : header[index] = name])
  ELSE <<>>

\* parseCSV: the rows of the lines that are not blank
parseCSV(csv) ==
  LET lines == SelectSeq(csv.lines, LAMBDA line : ~IsBlankLine(line))
  IN [i \in DOMAIN lines |->
        [vocabulary |-> CellOf(csv.header, lines[i], "vocabulary"),
         Meaning_VI |-> CellOf(csv.header, lines[i], "Meaning_VI"),
         Meaning_EN |-> CellOf(csv.header, lines[i], "Meaning_EN"),
         Example_EN |-> CellOf(csv.header, lines[i], "Example_EN"),
         Topic |-> CellOf(csv.header, lines[i], "Topic")]]

\* generateId(): an id no word has
generateId(newWords) ==
  1 + (IF newWords = <<>> THEN 0
       ELSE CHOOSE m \in {newWords[i].id : i \in DOMAIN newWords} :
              \A i \in DOMAIN newWords : newWords[i].id <= m)

\* an overwrite that builds the word anew and keeps only its id
OverwrittenWord_Anew(existing, row, time) ==
  [existing EXCEPT
     !.vocabulary = row.vocabulary,
     !.meaning_vi = IF row.Meaning_VI # <<>> THEN row.Meaning_VI ELSE @,
     !.example_en = row.Example_EN,
     !.topic = row.Topic,
     !.level = 1, !.next_review = time, !.last_reviewed = NoDate,
     !.correct_count = 0, !.incorrect_count = 0, !.created_at = time]

\* lines 135-147: { ...existing, vocabulary, meaning_vi, example_en, topic }
OverwrittenWord(existing, row, time) ==
  [existing EXCEPT
     !.vocabulary = row.vocabulary,
     !.meaning_vi = IF row.Meaning_VI # <<>> THEN row.Meaning_VI ELSE @,
     !.example_en = row.Example_EN,
     !.topic = row.Topic]

\* lines 154-171
CreatedWord(id, row, time) ==
  [id |-> id, vocabulary |-> row.vocabulary, meaning_vi |-> row.Meaning_VI,
   example_en |-> row.Example_EN, topic |-> row.Topic,
   level |-> 1, next_review |-> time, last_reviewed |-> NoDate,
   correct_count |-> 0, incorrect_count |-> 0, created_at |-> time]

\* the Map from lowercased term to word: the last word with the term
VocabMap(ws) ==
  [v \in {toLowerCase(ws[i].vocabulary) : i \in DOMAIN ws} |->
     ws[CHOOSE i \in DOMAIN ws :
          /\ toLowerCase(ws[i].vocabulary) = v
          /\ \A j \in DOMAIN ws : toLowerCase(ws[j].vocabulary) = v => j <= i]]

\* one turn of the loop of importCSV on the state
\* [newWords, existingVocab, success, skipped, failed]
ImportRow(st, row, onDuplicate, time) ==
  IF row.vocabulary = <<>> THEN [st EXCEPT !.failed = @ + 1]
  ELSE IF row.Meaning_VI = <<>> /\ row.Meaning_EN = <<>> THEN [st EXCEPT !.failed = @ + 1]
  ELSE IF row.Example_EN = <<>> THEN [st EXCEPT !.failed = @ + 1]
  ELSE LET vocabLower == toLowerCase(row.vocabulary)
           known == vocabLower \in DOMAIN st.existingVocab
           created == CreatedWord(generateId(st.newWords), row, time)
       IN IF known /\ onDuplicate = "skip" THEN [st EXCEPT !.skipped = @ + 1]
          ELSE IF known /\ \E i \in DOMAIN st.newWords :
                              st.newWords[i].id = st.existingVocab[vocabLower].id
          THEN LET existing == st.existingVocab[vocabLower]
                   index == CHOOSE i \in DOMAIN st.newWords :
                              /\ st.newWords[i].id = existing.id
                              /\ \A j \in DOMAIN st.newWords :
                                   st.newWords[j].id = existing.id => i <= j
               IN [st EXCEPT !.newWords[index] = OverwrittenWord(existing, row, time),
                             !.success = @ + 1]
          ELSE [st EXCEPT
                  !.newWords = Append(@, created),
                  !.existingVocab = [v \in DOMAIN @ \cup {vocabLower} |->
                                       IF v = vocabLower THEN created ELSE @[v]],
                  !.success = @ + 1]

RECURSIVE ImportRows(_, _, _, _)
ImportRows(st, rows, onDuplicate, time) ==
  IF rows = <<>> THEN st
  ELSE ImportRows(ImportRow(st, Head(rows), onDuplicate, time), Tail(rows),
                  onDuplicate, time)

importCSV(csv, existingWords, onDuplicate, time) ==
  LET st == ImportRows([newWords |-> existingWords,
                        existingVocab |-> VocabMap(existingWords),
                        success |-> 0, skipped |-> 0, failed |-> 0],
                       parseCSV(csv), onDuplicate, time)
  IN [words |-> st.newWords,
      result |-> [success |-> st.success, skipped |-> st.skipped, failed |-> st.failed]]

\* the header lines and the lines of the files imported: a row for the term of
\* word 1 in another case and with blanks around it, two rows for a new term,
\* a row without term, one without meaning, one too short to have an example,
\* and a blank line
ImportHeaders ==
  {<<"vocabulary", "Meaning_VI", "Meaning_EN", "Example_EN">>,
   <<"vocabulary", "Meaning_VI">>}
ImportLines ==
  {<<<<" ", "A", " ">>, <<"z">>, <<>>, <<"A", " ", "b">>>>,
   <<<<"c">>, <<>>, <<"y">>, <<"c">>>>,
   <<<<"C">>, <<"x">>, <<>>, <<"c", " ", "c">>>>,
   <<<<>>, <<"x">>, <<>>, <<"a">>>>,
   <<<<"b">>, <<>>, <<" ">>, <<"b">>>>,
   <<<<"b">>, <<"x">>>>,
   <<<<" ">>>>}
ImportTexts ==
  {[header |-> h, lines |-> l] :
     h \in ImportHeaders, l \in UNION {[1..n -> ImportLines] : n \in 0..MaxRows}}

\* the corpus before the import: empty, or the stored words
InitImport ==
  /\ words \in StoredCorpora \cup {<<>>}
  /\ now = StartOfTime
  /\ ledgerKey = "wordId"
  /\ Unstarted
  /\ calls = <<>>
  /\ ret = [op |-> "init"]
  /\ reviewsLeft = 0

\* useVocabulary.importWords(csvText, onDuplicate), once
importWords(csv, onDuplicate) ==
  /\ ret.op = "init"
  /\ LET imported == importCSV(csv, words, onDuplicate, now)
     IN /\ words' = imported.words
        /\ ret' = [op |-> "importWords", csv |-> csv, onDuplicate |-> onDuplicate,
                   existingWords |-> words, val |-> imported.result]
  /\ UNCHANGED <<now, ledgerKey, hookVars, calls, reviewsLeft>>

NextImport ==
  \E csv \in ImportTexts, onDuplicate \in {"skip", "overwrite"} :
    importWords(csv, onDuplicate) /\ UNCHANGED <<viewVars, statsVars>>

SpecImport == InitImport /\ [][NextImport]_vars

\* ------------------------------------------- the StudySession component
\* components/study/StudySession with its QuestionCard, mounted by the page on
\* the corpus and updateWordAfterReview of useVocabulary.  A handler runs in
\* steps of one hook call each, pc telling where it stands; when it is done
\* the effects of the commits that follow run, and only then the next event.

\* the tests of StudySession before it renders the QuestionCard
Rendered == sessionResult = <<>> /\ isActive /\ HasCurrentQuestion

\* a value of isCorrect, boolean | null, is the sequence of its booleans
IsTrue(x) == x = <<TRUE>>

\* submitAnswer and skipQuestion of the version of the hook that runs
submitAnswer(userAnswer, difficulty) ==
  \/ submitAnswerByWordId(userAnswer, difficulty)
  \/ submitAnswerByQuestionId(userAnswer, difficulty)

skipQuestion == skipQuestionByWordId \/ skipQuestionByQuestionId

\* the page opens the study view; kind "rated" is the QuestionCard with the
\* difficulty buttons, "continue" the one with the feedback dialog
InitComponent ==
  /\ words \in {SubSeq(stored, 1, n) : stored \in StoredCorpora, n \in 1..MaxWords}
  /\ now = StartOfTime
  /\ ledgerKey \in {"wordId", "questionId"}
  /\ isActive = FALSE
  /\ sessionWords = <<>>
  /\ questions = <<>>
  /\ currentIndex = 0
  /\ startTime = NoDate
  /\ sessionResult = <<>>
  /\ answers = <<>>
  /\ answeredCount = 0
  /\ correctCount = 0
  /\ prevLevels = <<>>
  /\ calls = <<>>
  /\ ret = [op |-> "init"]
  /\ reviewsLeft = MaxReviews
  /\ card \in {InitialCard("rated"), InitialCard("continue")}
  /\ pc = "effects"
  /\ startedWith = <<>>
  /\ NoStats

\* useEffect(() => { startSession(); }, [startSession]): after the first
\* render, and after every render in which startSession is another function,
\* which useCallback(..., [allWords]) makes it whenever the corpus is replaced
startSessionEffect ==
  /\ pc = "effects"
  /\ startedWith # <<words>>
  /\ startSession
  /\ startedWith' = <<words>>
  /\ UNCHANGED <<card, pc, statsVars>>

\* the local state of the QuestionCard once the renders have settled: the
\* useState initial values when it is not on screen, and the reset of its
\* effect on [question.id] when the question it shows has another id
SettledCard ==
  IF ~Rendered THEN InitialCard(card.kind)
  ELSE IF card.questionId # <<currentQuestion.id>>
       THEN [InitialCard(card.kind) EXCEPT !.questionId = <<currentQuestion.id>>]
       ELSE card

resetCardEffect ==
  /\ pc = "effects"
  /\ startedWith = <<words>>
  /\ card' = SettledCard
  /\ pc' = "idle"
  /\ UNCHANGED <<words, now, ledgerKey, hookVars, calls, ret, reviewsLeft, startedWith,
                 statsVars>>

\* QuestionCard.tsx, handleSubmit through handleOptionClick or handleTypedSubmit
handleSubmit(answer) ==
  /\ pc = "idle"
  /\ Rendered
  /\ card.kind = "rated"
  /\ ~card.isAnswered
  /\ submitAnswer(answer, "good")
  /\ card' = [card EXCEPT !.answer = answer,
                          !.isCorrect = <<ret'.val>>,
                          !.isAnswered = TRUE,
                          !.showDifficulty = ret'.val]
  /\ pc' = "effects"
  /\ UNCHANGED <<startedWith, statsVars>>

\* QuestionCard.tsx, the "I don't know" button
onSkipClick ==
  /\ pc = "idle"
  /\ Rendered
  /\ card.kind = "rated"
  /\ ~card.isAnswered
  /\ skipQuestion
  /\ card' = [card EXCEPT !.isAnswered = TRUE, !.isCorrect = <<FALSE>>]
  /\ pc' = "effects"
  /\ UNCHANGED <<startedWith, statsVars>>

\* QuestionCard.tsx, handleDifficultyAndNext up to its call of onNext
handleDifficultyAndNext(difficulty) ==
  /\ pc = "idle"
  /\ Rendered
  /\ card.kind = "rated"
  /\ card.showDifficulty
  /\ submitAnswer(card.answer, difficulty)
  /\ pc' = "onNext"
  /\ UNCHANGED <<card, startedWith, statsVars>>

\* StudySession.handleNext up to the test of hasMore
onNext ==
  /\ nextQuestion
  /\ pc' = IF ret'.val THEN "effects" ELSE "endSession"
  /\ UNCHANGED <<card, startedWith, statsVars>>

\* the call of onNext that ends handleDifficultyAndNext
handleNext ==
  /\ pc = "onNext"
  /\ onNext

\* StudySession.handleNext, if (!hasMore) endSession()
handleNextEnds ==
  /\ pc = "endSession"
  /\ endSession
  /\ pc' = "effects"
  /\ UNCHANGED <<card, startedWith, statsVars>>

\* QuestionCard.tsx, the Continue button shown after a wrong answer or a skip
onContinueClick ==
  /\ pc = "idle"
  /\ Rendered
  /\ card.kind = "rated"
  /\ card.isAnswered
  /\ ~IsTrue(card.isCorrect)
  /\ onNext

\* the other QuestionCard: handleSubmitAnswer through the Submit button or the form
handleSubmitAnswer(answer) ==
  /\ pc = "idle"
  /\ Rendered
  /\ card.kind = "continue"
  /\ ~card.isAnswered
  /\ submitAnswer(answer, "good")
  /\ card' = [card EXCEPT !.answer = answer,
                          !.isCorrect = <<ret'.val>>,
                          !.isAnswered = TRUE]
  /\ pc' = "effects"
  /\ UNCHANGED <<startedWith, statsVars>>

\* the other QuestionCard: handleSkip
handleSkip ==
  /\ pc = "idle"
  /\ Rendered
  /\ card.kind = "continue"
  /\ ~card.isAnswered
  /\ skipQuestion
  /\ card' = [card EXCEPT !.isAnswered = TRUE, !.isCorrect = <<FALSE>>]
  /\ pc' = "effects"
  /\ UNCHANGED <<startedWith, statsVars>>

\* the other QuestionCard: handleContinue, of the Continue button and of the dialog
handleContinue ==
  /\ pc = "idle"
  /\ Rendered
  /\ card.kind = "continue"
  /\ card.isAnswered
  /\ onNext

\* StudySession, the Exit and X buttons of the header
onExitClick ==
  /\ pc = "idle"
  /\ Rendered
  /\ endSession
  /\ pc' = "effects"
  /\ UNCHANGED <<card, startedWith, statsVars>>

\* StudySession, onRestart of the SessionSummary
onRestartClick ==
  /\ pc = "idle"
  /\ onRestart
  /\ pc' = "effects"
  /\ UNCHANGED <<card, startedWith, statsVars>>

\* time passes between two events
TickMounted ==
  /\ pc = "idle"
  /\ Tick
  /\ UNCHANGED <<viewVars, statsVars>>

NextComponent ==
  \/ startSessionEffect
  \/ resetCardEffect
  \/ \E a \in UserAnswers : handleSubmit(a)
  \/ onSkipClick
  \/ \E d \in DifficultyRating : handleDifficultyAndNext(d)
  \/ handleNext
  \/ handleNextEnds
  \/ onContinueClick
  \/ \E a \in UserAnswers : handleSubmitAnswer(a)
  \/ handleSkip
  \/ handleContinue
  \/ onExitClick
  \/ onRestartClick
  \/ TickMounted

SpecComponent == InitComponent /\ [][NextComponent]_vars

\* ------------------------------------- the store with its daily statistics
\* new Date(t).toISOString().split('T')[0]: the calendar day of an instant in
\* UTC, as the number of the day
DayOf(time) == time \div DaySeconds

\* an updateStreak that keeps the new streak as the longest one
updateStreak_ForgetsLongest(prev, time) ==
  LET today == DayOf(time)
      yesterday == DayOf(time - DaySeconds)
  IN IF prev.last_study_date = today THEN prev
     ELSE LET newCurrentStreak ==
                IF prev.last_study_date = yesterday THEN prev.current_streak + 1 ELSE 1
          IN [current_streak |-> newCurrentStreak,
              longest_streak |-> newCurrentStreak,
              last_study_date |-> today]

\* the updater that updateStreak hands to setStreak
updateStreak(prev, time) ==
  LET today == DayOf(time)
      yesterday == DayOf(time - DaySeconds)
  IN IF prev.last_study_date = today THEN prev
     ELSE LET newCurrentStreak ==
                IF prev.last_study_date = yesterday THEN prev.current_streak + 1 ELSE 1
          IN [current_streak |-> newCurrentStreak,
              longest_streak |-> Max(prev.longest_streak, newCurrentStreak),
              last_study_date |-> today]

\* the days of statistics kept
KeptDays == 30
\* s.slice(-n)
LastOf(s, n) == SubSeq(s, Max(1, Len(s) - n + 1), Len(s))

\* the updater that recordDailyStats hands to setDailyStats
DailyStatsAfter(prev, isCorrect, time) ==
  LET today == DayOf(time)
      found == {i \in DOMAIN prev : prev[i].date = today}
  IN IF found # {}
     THEN LET existingIndex == CHOOSE i \in found : \A j \in found : i <= j
          IN [prev EXCEPT ![existingIndex] =
                [@ EXCEPT !.words_studied = @ + 1,
                          !.correct_count = @ + (IF isCorrect THEN 1 ELSE 0),
                          !.incorrect_count = @ + (IF isCorrect THEN 0 ELSE 1)]]
     ELSE LastOf(Append(prev, [date |-> today,
                               words_studied |-> 1,
                               correct_count |-> IF isCorrect THEN 1 ELSE 0,
                               incorrect_count |-> IF isCorrect THEN 0 ELSE 1]),
                 KeptDays)

recordDailyStats(isCorrect) ==
  /\ dailyStats' = DailyStatsAfter(dailyStats, isCorrect, now)
  /\ streak' = updateStreak(streak, now)

\* useVocabulary.updateWordAfterReview, lines 297-323, called on the store
recordReview(wordId, isCorrect, difficulty) ==
  /\ reviewsLeft > 0
  /\ recordDailyStats(isCorrect)
  /\ words' = updateWordAfterReview(words, wordId, isCorrect, difficulty, now)
  /\ reviewsLeft' = reviewsLeft - 1
  /\ ret' = [op |-> "updateWordAfterReview", wordId |-> wordId,
             isCorrect |-> isCorrect, difficulty |-> difficulty]
  /\ UNCHANGED <<now, ledgerKey, hookVars, calls, viewVars>>

\* a corpus of one or two stored words
InitStore ==
  /\ words \in {SubSeq(stored, 1, n) : stored \in StoredCorpora, n \in 1..MaxWords}
  /\ now = StartOfTime
  /\ ledgerKey = "wordId"
  /\ Unstarted
  /\ calls = <<>>
  /\ ret = [op |-> "init"]
  /\ reviewsLeft = MaxReviews

\* the ids of the words and one id that no word has
NextStore ==
  \/ \E wordId \in 1..(MaxWords + 1), c \in BOOLEAN, d \in DifficultyRating :
       recordReview(wordId, c, d)
  \/ Tick /\ UNCHANGED <<viewVars, statsVars>>

SpecStore == InitStore /\ [][NextStore]_vars

\* ------------------------------------------- the streak over several days
\* the clock moves on by a quarter of a day, a day or two days
ClockSteps == {DaySeconds \div 4, DaySeconds, 2 * DaySeconds}

TimePasses(seconds) ==
  /\ now + seconds <= StartOfTime + MaxDays * DaySeconds
  /\ now' = now + seconds
  /\ ret' = [op |-> "timePasses"]
  /\ UNCHANGED <<words, ledgerKey, hookVars, calls, reviewsLeft, viewVars, statsVars>>

\* what the QuestionCard can report of an answer
ReportedOutcomes ==
  {[isCorrect |-> TRUE, difficulty |-> "good"],
   [isCorrect |-> FALSE, difficulty |-> "good"],
   [isCorrect |-> FALSE, difficulty |-> "hard"]}

\* one word, never reviewed, and no statistics yet
InitStreak ==
  /\ words = <<Word(1, "fresh")>>
  /\ now = StartOfTime
  /\ ledgerKey = "wordId"
  /\ Unstarted
  /\ calls = <<>>
  /\ ret = [op |-> "init"]
  /\ reviewsLeft = MaxStreakReviews

NextStreak ==
  \/ \E o \in ReportedOutcomes : recordReview(1, o.isCorrect, o.difficulty)
  \/ \E seconds \in ClockSteps : TimePasses(seconds)

SpecStreak == InitStreak /\ [][NextStreak]_vars

\* ------------------------------------------- the normalization alone
\* the string handed to normalize
InitNormalize ==
  /\ words = <<>>
  /\ now = StartOfTime
  /\ ledgerKey = "wordId"
  /\ Unstarted
  /\ calls = <<>>
  /\ ret \in {[op |-> "input", s |-> s] : s \in StringsUpTo(MaxAnswerLen)}
  /\ reviewsLeft = 0

\* normalize(s)
Normalize ==
  /\ ret.op = "input"
  /\ ret' = [op |-> "normalize", s |-> ret.s, once |-> normalize(ret.s)]
  /\ UNCHANGED <<storeVars, ledgerKey, hookVars, calls, reviewsLeft>>

\* normalize(normalize(s))
NormalizeAgain ==
  /\ ret.op = "normalize"
  /\ ret' = [op |-> "normalizeAgain", s |-> ret.s, once |-> ret.once,
             twice |-> normalize(ret.once)]
  /\ UNCHANGED <<storeVars, ledgerKey, hookVars, calls, reviewsLeft>>

NextNormalize ==
  \/ Normalize /\ UNCHANGED <<viewVars, statsVars>>
  \/ NormalizeAgain /\ UNCHANGED <<viewVars, statsVars>>

SpecNormalize == InitNormalize /\ [][NextNormalize]_vars

\* ------------------------------------------------------------ the claims
Idle == ~isActive /\ sessionResult = <<>>
Active == isActive
Completed == ~isActive /\ sessionResult # <<>>

\* the ledger key of a question, the records kept for it and the invocations
\* of onUpdateWord made for it
KeyOfQuestion(q) == IF ledgerKey = "wordId" THEN q.word.id ELSE q.id
RecordsOf(q) == SelectSeq(answers, LAMBDA r : KeyOf(r) = KeyOfQuestion(q))
CallsOf(q) == SelectSeq(calls, LAMBDA c : c.questionId = q.id)
CurrentAnswered == HasCurrentQuestion /\ HasAnswer(KeyOfQuestion(currentQuestion))
AnswerStep == ret'.op \in {"submitAnswer", "skipQuestion"}

\* C1: whatever submitAnswer and skip calls are made on a question, the
\* collaborator is invoked exactly once for it and the ledger holds exactly
\* one record for it, with the correctness and difficulty of that invocation:
\* no question has more than one record or invocation, a record and its
\* invocation agree, and once a call was made on the current question it has
\* both.
C1_OncePerQuestion ==
  /\ \A i \in DOMAIN questions :
       LET q == questions[i]
       IN /\ Len(RecordsOf(q)) <= 1
          /\ Len(CallsOf(q)) = Len(RecordsOf(q))
          /\ Len(RecordsOf(q)) = 1 =>
               /\ CallsOf(q)[1].wordId = q.word.id
               /\ CallsOf(q)[1].isCorrect = RecordsOf(q)[1].isCorrect
               /\ CallsOf(q)[1].difficulty = RecordsOf(q)[1].difficulty
  /\ (ret.op \in {"submitAnswer", "skipQuestion"} /\ HasCurrentQuestion) =>
       Len(CallsOf(currentQuestion)) = 1
  /\ Len(calls) = Len(answers)

\* a skip has been called on a question first answered, rightly, with 'easy'
C1_Witness ==
  /\ ret.op = "skipQuestion"
  /\ HasCurrentQuestion
  /\ Len(RecordsOf(currentQuestion)) = 1
  /\ RecordsOf(currentQuestion)[1].difficulty = "easy"
  /\ RecordsOf(currentQuestion)[1].isCorrect
  /\ Len(CallsOf(currentQuestion)) = 1

\* C2: submitAnswer on a question that has a record returns the correctness
\* stored in the record (the first call stores what it returns, so after any
\* submitAnswer on a current question the value returned is the stored one).
C2_ReturnsStored ==
  (ret.op = "submitAnswer" /\ HasCurrentQuestion) =>
     ret.val = RecordsOf(currentQuestion)[1].isCorrect

\* C3: skip on an unanswered current question appends the record (incorrect,
\* 'hard') and invokes onWordReviewed(wordId, false, 'hard') once; skip on an
\* answered question changes nothing; submitAnswer on a skipped question keeps
\* the record and invokes nothing.
C3_Skip ==
  [][/\ (ret'.op = "skipQuestion" /\ HasCurrentQuestion /\ ~CurrentAnswered) =>
          /\ Len(answers') = Len(answers) + 1
          /\ KeyOf(answers'[Len(answers')]) = KeyOfQuestion(currentQuestion)
          /\ answers'[Len(answers')].isCorrect = FALSE
          /\ answers'[Len(answers')].difficulty = "hard"
          /\ SubSeq(answers', 1, Len(answers)) = answers
          /\ calls' = Append(calls, [questionId |-> currentQuestion.id,
                                     wordId |-> currentQuestion.word.id,
                                     isCorrect |-> FALSE, difficulty |-> "hard"])
     /\ (ret'.op = "skipQuestion" /\ CurrentAnswered) =>
          UNCHANGED <<storeVars, hookVars, calls>>
     /\ (ret'.op = "submitAnswer" /\ CurrentAnswered) =>
          /\ answers' = answers
          /\ calls' = calls
          /\ words' = words]_vars

\* a submitAnswer has been made on a question that was skipped
C3_Witness ==
  /\ ledgerKey = "questionId"
  /\ ret.op = "submitAnswer"
  /\ CurrentAnswered
  /\ RecordsOf(currentQuestion)[1].userAnswer = <<>>
  /\ RecordsOf(currentQuestion)[1].difficulty = "hard"
  /\ Len(CallsOf(currentQuestion)) = 1

\* C4: submitAnswer and skip called while the session is not Active write no
\* record, change no counter and do not invoke onWordReviewed.
C4_OnlyWhileActive ==
  [][(AnswerStep /\ ~isActive) =>
       /\ answers' = answers
       /\ answeredCount' = answeredCount
       /\ correctCount' = correctCount
       /\ calls' = calls]_vars

\* C5: the state moves only Idle -> Active by a successful start, Active ->
\* Completed by end, and to Idle by reset; nothing but reset leaves Completed,
\* end in Idle gives no Completed state, and start while Active does not begin
\* a new session.  (onRestart is a reset followed by a start.)
C5_Transitions ==
  [][ret'.op # "onRestart" =>
       /\ (Idle /\ ~Idle') => (Active' /\ ret'.op = "startSession")
       /\ (Active /\ ~Active') =>
            \/ Completed' /\ ret'.op = "endSession"
            \/ Idle' /\ ret'.op = "resetSession"
       /\ (Completed /\ ~Completed') => (Idle' /\ ret'.op = "resetSession")
       /\ (Active /\ ret'.op = "startSession") =>
            UNCHANGED <<questions, answers, currentIndex>>]_vars

\* C6: the result computed by end (but for the duration) stays what it is under
\* later submitAnswer, skip, advance and end calls.
ResultCore(r) ==
  <<r.totalQuestions, r.correctAnswers, r.accuracy, r.wordsLeveledUp, r.wordsLeveledDown>>
C6_ResultFrozen ==
  [][(sessionResult # <<>>
      /\ ret'.op \in {"submitAnswer", "skipQuestion", "nextQuestion", "endSession"}) =>
       /\ sessionResult' # <<>>
       /\ ResultCore(sessionResult'[1]) = ResultCore(sessionResult[1])]_vars

\* C7: start with nothing to select returns false and leaves the session state
\* as it was.
C7_EmptyStart ==
  [][(ret'.op = "startSession"
      /\ Len(selectWordsForSession(words, MAX_QUESTIONS, now)) = 0) =>
       /\ ret'.val = FALSE
       /\ UNCHANGED <<hookVars, calls, words>>]_vars

\* a failed start in a session that has questions and a result
C7_Witness ==
  /\ ret.op = "startSession"
  /\ ret.val = FALSE
  /\ sessionResult # <<>>
  /\ Len(questions) > 0
  /\ Len(answers) > 0

\* C8: after a successful start the questions are as many as the selected
\* words, at most MAX_QUESTIONS, and question i is built from selected word i;
\* and for every cap and every shuffled order, every plan of startSession and
\* every list generateSessionQuestions returns is so.
OneToOne(qs, items) ==
  /\ Len(qs) = Len(items)
  /\ \A i \in DOMAIN qs : qs[i].word = items[i]
C9_DistinctQuestions ==
  /\ \A i, j \in DOMAIN questions :
       i # j => (questions[i].id # questions[j].id
                 /\ questions[i].word.id # questions[j].word.id)
  /\ \A i, j \in DOMAIN calls :
       i # j => (calls[i].questionId # calls[j].questionId
                 /\ calls[i].wordId # calls[j].wordId)
  /\ {i \in DOMAIN questions : \E k \in DOMAIN calls : calls[k].questionId = questions[i].id}
       = {i \in DOMAIN questions : \E k \in DOMAIN calls : calls[k].wordId = questions[i].word.id}
  /\ \A k \in DOMAIN answers :
       \E i \in DOMAIN questions : KeyOf(answers[k]) = KeyOfQuestion(questions[i])

\* two questions of the same type, both answered
C9_Witness ==
  /\ Len(questions) >= 2
  /\ questions[1].type = questions[2].type
  /\ Len(answers) = 2

\* C10: end reports the number of recorded answers as totalQuestions, the
\* number of correct records as correctAnswers and correct/answered*100 (0 when
\* nothing is answered) as accuracy, so that 0 <= correctAnswers <=
\* totalQuestions <= number of questions and 0 <= accuracy <= 100.
C10_ResultCounts ==
  ret.op = "endSession" =>
    LET r == ret.val
        correct == Len(SelectSeq(answers, LAMBDA a : a.isCorrect))
    IN /\ r.totalQuestions = Len(answers)
       /\ r.correctAnswers = correct
       /\ r.accuracy = (IF Len(answers) > 0
                        THEN [num |-> correct * 100, den |-> Len(answers)]
                        ELSE [num |-> 0, den |-> 1])
       /\ 0 <= r.correctAnswers
       /\ r.correctAnswers <= r.totalQuestions
       /\ r.totalQuestions <= Len(questions)
       /\ 0 <= r.accuracy.num
       /\ r.accuracy.num <= 100 * r.accuracy.den
       /\ sessionResult = <<r>>

\* a session ended with fewer answers than questions, one of them correct
C10_Witness ==
  /\ ret.op = "endSession"
  /\ ret.val.totalQuestions = 1
  /\ ret.val.correctAnswers = 1
  /\ Len(questions) = 2

\* how often the word with the given id is in a list of words
Occurrences(list, wordId) == Len(SelectSeq(list, LAMBDA w : w.id = wordId))
\* the records of the ledger about a word
RecordsOfWord(wordId) == SelectSeq(answers, LAMBDA r : r.wordId = wordId)

\* C11: in the result of end() a word of the session is at most once in
\* wordsLeveledUp and wordsLeveledDown together: in wordsLeveledUp exactly when
\* it has a correct record and its level at the start was below 5, in
\* wordsLeveledDown and incorrectWords exactly when it has an incorrect record,
\* in neither when it was answered correctly at level 5 or not answered; the
\* lists hold nothing but words of the session.
C11_LeveledLists ==
  ret.op = "endSession" =>
    LET r == ret.val
    IN /\ \A i \in DOMAIN sessionWords :
            LET w == sessionWords[i]
                recs == RecordsOfWord(w.id)
                up == Occurrences(r.wordsLeveledUp, w.id)
                down == Occurrences(r.wordsLeveledDown, w.id)
            IN /\ Len(recs) <= 1
               /\ up + down <= 1
               /\ up = 1 <=> (Len(recs) = 1 /\ recs[1].isCorrect /\ w.level < 5)
               /\ down = 1 <=> (Len(recs) = 1 /\ ~recs[1].isCorrect)
               /\ Occurrences(r.incorrectWords, w.id) = down
       /\ \A w \in Range(r.wordsLeveledUp) \cup Range(r.wordsLeveledDown)
                     \cup Range(r.incorrectWords) : w \in Range(sessionWords)
       /\ \A k \in DOMAIN answers :
            \E i \in DOMAIN sessionWords : sessionWords[i].id = answers[k].wordId

\* a session ended with a word answered rightly at level 5 and the other
\* answered wrongly
C11_Witness ==
  /\ ret.op = "endSession"
  /\ Len(answers) = 2
  /\ \E i \in DOMAIN sessionWords :
       /\ sessionWords[i].level = 5
       /\ RecordsOfWord(sessionWords[i].id)[1].isCorrect
  /\ Len(ret.val.wordsLeveledUp) = 0
  /\ Len(ret.val.wordsLeveledDown) = 1

\* C12: reset() in any state gives the Idle state with no session words, no
\* questions, index 0, an empty ledger, zero counters, no previous levels and
\* no result; it invokes nothing on the store and leaves the corpus, with the
\* reviews already made, as it is.
C12_Reset ==
  [][ret'.op = "resetSession" =>
       /\ Idle'
       /\ sessionWords' = <<>>
       /\ questions' = <<>>
       /\ currentIndex' = 0
       /\ answers' = <<>>
       /\ answeredCount' = 0
       /\ correctCount' = 0
       /\ prevLevels' = <<>>
       /\ sessionResult' = <<>>
       /\ startTime' = NoDate
       /\ words' = words
       /\ reviewsLeft' = reviewsLeft]_vars

\* a reset after two reviews were sent to the store
C12_Witness ==
  /\ ret.op = "resetSession"
  /\ reviewsLeft = 0
  /\ \E i \in DOMAIN words : words[i].last_reviewed >= StartOfTime
  /\ answers = <<>>

\* C13: advance() adds 1 to the index and returns true when the current
\* question is not the last one, and leaves the index and returns false when it
\* is; while the session is Active the index is within the questions.
C13_Advance ==
  /\ [](isActive => (0 <= currentIndex /\ currentIndex < Len(questions)))
  /\ [][ret'.op = "nextQuestion" =>
          IF currentIndex < Len(questions) - 1
          THEN currentIndex' = currentIndex + 1 /\ ret'.val = TRUE
          ELSE currentIndex' = currentIndex /\ ret'.val = FALSE]_vars

\* advance() refused on the last of the questions of an Active session
C13_Witness ==
  /\ ret.op = "nextQuestion"
  /\ ret.val = FALSE
  /\ isActive
  /\ Len(questions) = MaxWords
  /\ currentIndex = Len(questions) - 1

\* the stored word with the given id, before and after a step
WordWithId(ws, wordId) == ws[CHOOSE i \in DOMAIN ws : ws[i].id = wordId]

\* C14: under any sequence of review outcomes the level of a word stays an
\* integer of 1..5 and its next_review stays defined, and one review moves the
\* level by at most 1: up on a correct answer unless it is 5, down on an
\* incorrect one unless it is 1.
C14_LevelInRange ==
  /\ [](\A i \in DOMAIN words :
          /\ words[i].level \in 1..5
          /\ words[i].next_review # NoDate
          /\ words[i].next_review >= words[i].created_at)
  /\ [][ret'.op = "review" =>
          LET before == WordWithId(words, ret'.wordId)
              after == WordWithId(words', ret'.wordId)
          IN /\ after.level - before.level \in {0 - 1, 0, 1}
             /\ ret'.isCorrect =>
                  after.level = (IF before.level = 5 THEN 5 ELSE before.level + 1)
             /\ ~ret'.isCorrect =>
                  after.level = (IF before.level = 1 THEN 1 ELSE before.level - 1)
             /\ after.next_review > now
             /\ after.last_reviewed = now]_vars

\* a word of level 5 fell to 4 by a wrong answer, came back to 5 and was then
\* answered rightly at level 5
C14_Witness ==
  /\ ret.op = "review"
  /\ ret.level = 5
  /\ ret.isCorrect
  /\ words[1].level = 5
  /\ words[1].incorrect_count = 1

\* C15: for an incorrect outcome calculateNextReview returns the level
\* max(1, L-1) and a next review 5 minutes after now, whatever the level and
\* the difficulty.
C15_IncorrectOutcome ==
  (ret.op = "review" /\ ~ret.isCorrect) =>
     /\ ret.out.newLevel = (IF ret.level - 1 > 1 THEN ret.level - 1 ELSE 1)
     /\ ret.out.nextReview - ret.at = 5 * 60
     /\ \A L \in 1..5, d \in {"easy", "good", "hard"} :
          calculateNextReview(L, d, FALSE, ret.at).nextReview = ret.out.nextReview

\* a wrong answer rated 'easy' on a word of level 5
C15_Witness ==
  /\ ret.op = "review"
  /\ ~ret.isCorrect
  /\ ret.level = 5
  /\ ret.difficulty = "easy"
  /\ ret.out.newLevel = 4

\* C16: for a correct outcome calculateNextReview returns the level
\* min(5, L+1) and a next review that is baseInterval(newLevel) * multiplier(d)
\* after now, the intervals being 10 min, 1 d, 3 d, 7 d and 25 d and the
\* multipliers 1.3, 1.0 and 0.7; level 3 with 'easy' gives level 4 and 9.1 days.
C16_CorrectOutcome ==
  (ret.op = "review" /\ ret.isCorrect) =>
     LET base == <<600, 86400, 3 * 86400, 7 * 86400, 25 * 86400>>
         tenths == [easy |-> 13, good |-> 10, hard |-> 7]
         newLevel == IF ret.level + 1 < 5 THEN ret.level + 1 ELSE 5
     IN /\ ret.out.newLevel = newLevel
        /\ (ret.out.nextReview - ret.at) * 10 = base[newLevel] * tenths[ret.difficulty]
        /\ (ret.level = 3 /\ ret.difficulty = "easy") =>
             (ret.out.newLevel = 4 /\ ret.out.nextReview - ret.at = 786240)

\* a right answer rated 'hard' on a word of level 5
C16_Witness ==
  /\ ret.op = "review"
  /\ ret.isCorrect
  /\ ret.level = 5
  /\ ret.difficulty = "hard"
  /\ ret.out.newLevel = 5

\* the bucket of a word and the order of the keys (bucket, level, next_review)
Bucket(w) ==
  IF w.next_review < now THEN 1
  ELSE IF w.next_review <= now - (now % 86400) + 86399 THEN 2
  ELSE IF w.last_reviewed = NoDate THEN 3
  ELSE 4
KeyLess(a, b) ==
  \/ Bucket(a) < Bucket(b)
  \/ Bucket(a) = Bucket(b) /\ a.level < b.level
  \/ Bucket(a) = Bucket(b) /\ a.level = b.level /\ a.next_review < b.next_review
KeyEqual(a, b) ==
  Bucket(a) = Bucket(b) /\ a.level = b.level /\ a.next_review = b.next_review
Sign(n) == IF n < 0 THEN 0 - 1 ELSE IF n > 0 THEN 1 ELSE 0
\* where a word of the input stands in the input
PlaceIn(list, w) == CHOOSE i \in DOMAIN list : list[i] = w

\* C17: sortByReviewPriority returns a permutation of its input in ascending
\* order of the key (bucket, level, next_review), words of equal key keeping
\* their input order, so every overdue word is before every word of the new
\* bucket; the comparator is the comparison of the keys, antisymmetric and
\* transitive; the input is left as it was.
C17_SortedByKey ==
  ret.op = "sort" =>
    LET out == ret.out
    IN /\ Len(out) = Len(words)
       /\ Range(out) = Range(words)
       /\ \A i, j \in DOMAIN out :
            i < j => /\ ~KeyLess(out[j], out[i])
                     /\ KeyEqual(out[i], out[j]) => PlaceIn(words, out[i]) < PlaceIn(words, out[j])
                     /\ ~(Bucket(out[i]) = 3 /\ Bucket(out[j]) = 1)
       /\ \A a, b \in Range(words) :
            /\ Sign(ReviewCompare(a, b, now)) =
                 (IF KeyLess(a, b) THEN 0 - 1 ELSE IF KeyLess(b, a) THEN 1 ELSE 0)
            /\ Sign(ReviewCompare(a, b, now)) = 0 - Sign(ReviewCompare(b, a, now))
       /\ \A a, b, c \in Range(words) :
            (ReviewCompare(a, b, now) <= 0 /\ ReviewCompare(b, c, now) <= 0)
              => ReviewCompare(a, c, now) <= 0

\* a never-reviewed word of level 1 due tomorrow, given first, is sorted after
\* an overdue word of level 3 and before a reviewed word due tomorrow
C17_Witness ==
  /\ ret.op = "sort"
  /\ Len(words) = 3
  /\ Bucket(words[1]) = 3 /\ words[1].level = 1
  /\ Bucket(ret.out[1]) = 1 /\ ret.out[1].level = 3
  /\ ret.out[2] = words[1]
  /\ Bucket(ret.out[3]) = 4 /\ ret.out[3].level = 1

\* C18: sorting the output of sortByReviewPriority again, at the same instant,
\* gives the same sequence.
C18_SortIdempotent ==
  ret.op = "sort" => sortByReviewPriority(ret.out, now) = ret.out

\* a sort that moved words and whose output has two words of equal key
C18_Witness ==
  /\ ret.op = "sort"
  /\ ret.out # words
  /\ \E i, j \in DOMAIN ret.out : i < j /\ KeyEqual(ret.out[i], ret.out[j])

\* C19: selectWordsForSession returns the first min(count, |items|) elements
\* of sortByReviewPriority(items): no word left out has a smaller key than a
\* selected one, words not yet due are selected when the count allows, and
\* the selection is empty only for no items or a count of 0.
C19_SelectPrefix ==
  ret.op = "select" =>
    LET out == ret.out
        sorted == sortByReviewPriority(words, now)
        n == IF ret.count < Len(words) THEN ret.count ELSE Len(words)
    IN /\ Len(out) = n
       /\ \A i \in 1..n : out[i] = sorted[i]
       /\ \A s \in Range(out), l \in Range(words) \ Range(out) : ~KeyLess(l, s)
       /\ (out = <<>>) <=> (words = <<>> \/ ret.count = 0)

\* two of three words selected, one of them due only tomorrow
C19_Witness ==
  /\ ret.op = "select"
  /\ ret.count = 2
  /\ Len(words) = 3
  /\ Len(ret.out) = 2
  /\ Bucket(ret.out[2]) = 4
  /\ ret.out[2] # words[2]

\* C20: a question generated with an option set has exactly 4 options, the
\* canonical answer is exactly one of them and no two options are equal.
C20_FourDistinctOptions ==
  (ret.op = "generate" /\ ret.type \in OptionTypes) =>
     /\ Len(ret.options) = 4
     /\ Cardinality({i \in DOMAIN ret.options : ret.options[i] = ret.correctAnswer}) = 1
     /\ \A i, j \in DOMAIN ret.options : i # j => ret.options[i] # ret.options[j]

\* a letter or a digit, those outside ASCII included
IsLetterOrDigit(c) == (IsWordChar(c) /\ c # "_") \/ c \in {"É", "é"}

\* the term stands in the sentence as a whole word, in any case: the
\* characters next to the occurrence, if any, are neither letters nor digits
WholeWordIn(vocabulary, example) ==
  LET n == Len(vocabulary)
  IN \E p \in 0..(Len(example) - n) :
       /\ toLowerCase(SubSeq(example, p + 1, p + n)) = toLowerCase(vocabulary)
       /\ p = 0 \/ ~IsLetterOrDigit(example[p])
       /\ p + n = Len(example) \/ ~IsLetterOrDigit(example[p + n + 1])

GapFillTypes == {"gap_fill_text", "gap_fill_audio"}

\* C21: for a word whose example sentence does not contain its term as a whole
\* word in any case, generateQuestion returns no gap-fill question, whatever
\* the preferred type (none included) and whatever the random source yields.
C21_NoGapFillWithoutTerm ==
  (ret.op = "generate"
   /\ ~WholeWordIn(WordWithId(words, ret.wordId).vocabulary,
                   WordWithId(words, ret.wordId).example_en))
    => ret.type \notin GapFillTypes

\* the types available for a word: the four that always are and the two
\* gap-fill types when the term is a whole word of the example sentence
AvailableFor(w) ==
  {"context_meaning", "simple_meaning", "dictation", "translation"}
  \cup (IF WholeWordIn(w.vocabulary, w.example_en) THEN GapFillTypes ELSE {})

\* C22: generateQuestion returns a question of the preferred type whenever
\* that type is available for the word, whatever the random source yields.
C22_PreferredHonoured ==
  (ret.op = "generate"
   /\ ret.preferredType \in AvailableFor(WordWithId(words, ret.wordId)))
    => ret.type = ret.preferredType

\* a punctuation character: neither a letter, nor a digit, nor whitespace
IsPunctuation(c) == ~IsLetterOrDigit(c) /\ ~IsSpace(c)

\* what is left of an answer when its case, its punctuation and the
\* whitespace around it are left out of account
WithoutCasePunctuationMargins(s) ==
  trim(SelectSeq(toLowerCase(s), LAMBDA c : ~IsPunctuation(c)))

\* C23: checkAnswer is true whenever the two answers differ only in letter
\* case, in punctuation and in surrounding whitespace, wherever the
\* punctuation stands, and checkAnswer(x, x) is true for every x.
C23_IgnoresCasePunctuationMargins ==
  ret.op = "checkAnswer" =>
    /\ WithoutCasePunctuationMargins(ret.userAnswer)
         = WithoutCasePunctuationMargins(ret.correctAnswer) => ret.val
    /\ ret.userAnswer = ret.correctAnswer => ret.val

\* the letters and digits of an answer, in lower case
LettersOf(s) == SelectSeq(toLowerCase(s), IsLetterOrDigit)

\* C24: checkAnswer is false whenever the two answers, lowercased and without
\* punctuation and extra whitespace, differ in at least one letter, a letter
\* outside ASCII included.
C24_LettersDecide ==
  (ret.op = "checkAnswer" /\ LettersOf(ret.userAnswer) # LettersOf(ret.correctAnswer))
    => ~ret.val

\* C25: calculateNextReview called with a level outside 1..5 and
\* selectWordsForSession called with a negative count signal an error: they
\* return neither a newLevel outside 1..5 nor a selection.
C25_InvalidInputFails ==
  /\ (ret.op = "calculateNextReview" /\ ret.level \notin 1..5)
       => ret.outcome = "error"
  /\ (ret.op = "selectWordsForSession" /\ ret.count < 0)
       => ret.outcome = "error"

\* the candidate strings the other words of a topic offer for a word: their
\* terms for getDistractorWords, their meanings for getDistractorMeanings,
\* the word's own string left out
CandidatesOf(w, op, sameTopic) ==
  {IF op = "getDistractorWords" THEN o.vocabulary ELSE o.meaning_vi :
     o \in {v \in Range(words) : v.id # w.id /\ (v.topic = w.topic) = sameTopic}}
  \ {IF op = "getDistractorWords" THEN w.vocabulary ELSE w.meaning_vi}

\* C26: distractors are taken from the words of the same topic first: with at
\* least 3 candidates of the same topic all 3 distractors are among them, and
\* a word of another topic supplies a distractor only when every candidate of
\* the same topic has been taken.
C26_SameTopicFirst ==
  ret.op \in {"getDistractorWords", "getDistractorMeanings"} =>
    LET w == WordWithId(words, ret.wordId)
        same == CandidatesOf(w, ret.op, TRUE)
        other == CandidatesOf(w, ret.op, FALSE)
    IN /\ Cardinality(same) >= 3 => Range(ret.out) \subseteq same
       /\ Range(ret.out) \cap other # {} => same \subseteq Range(ret.out)

\* the type generateSessionQuestions prefers for the i-th word (from 1)
PreferredOf(i) == ret.shuffledTypes[((i - 1) % 6) + 1]
Lacks(w) == ~WholeWordIn(w.vocabulary, w.example_en)

\* C27: in generateSessionQuestions, a word whose preferred type is a gap-fill
\* type and whose example sentence lacks the term gets the secondary type:
\* simple_meaning for gap_fill_text, dictation for gap_fill_audio.
C27_SecondaryType ==
  ret.op = "generateSessionQuestions" =>
    \A i \in DOMAIN ret.types :
      Lacks(words[i]) =>
        /\ PreferredOf(i) = "gap_fill_text" => ret.types[i] = "simple_meaning"
        /\ PreferredOf(i) = "gap_fill_audio" => ret.types[i] = "dictation"

IsSubList(a, b) == a = SelectSeq(b, LAMBDA w : w \in Range(a))

\* C29 as claimed: getDueWords returns exactly the words of the overdue
\* bucket, getWordsDueToday those of buckets 1 and 2, getNewWords those never
\* reviewed, each in input order, and getDueWords is a sub-list of
\* getWordsDueToday.
C29_FiltersAreBuckets ==
  /\ ret.op = "getDueWords" =>
       /\ ret.out = SelectSeq(words, LAMBDA w : Bucket(w) = 1)
       /\ IsSubList(ret.out, getWordsDueToday(words, now))
  /\ ret.op = "getWordsDueToday" =>
       ret.out = SelectSeq(words, LAMBDA w : Bucket(w) \in {1, 2})
  /\ ret.op = "getNewWords" =>
       ret.out = SelectSeq(words, LAMBDA w : w.last_reviewed = NoDate)

\* C29 amended: getDueWords returns exactly the words of the overdue bucket
\* and the words of the due-today bucket whose next_review is now;
\* getWordsDueToday returns those of buckets 1 and 2, getNewWords those never
\* reviewed, each in input order, and getDueWords is a sub-list of
\* getWordsDueToday.
C29_FiltersByDueness ==
  /\ ret.op = "getDueWords" =>
       /\ ret.out = SelectSeq(words, LAMBDA w :
                                \/ Bucket(w) = 1
                                \/ Bucket(w) = 2 /\ w.next_review = now)
       /\ IsSubList(ret.out, getWordsDueToday(words, now))
  /\ ret.op = "getWordsDueToday" =>
       ret.out = SelectSeq(words, LAMBDA w : Bucket(w) \in {1, 2})
  /\ ret.op = "getNewWords" =>
       ret.out = SelectSeq(words, LAMBDA w : w.last_reviewed = NoDate)

\* getDueWords on an overdue word, a word due at this very instant and a word
\* due later today: the first two are returned
C29_Witness ==
  /\ ret.op = "getDueWords"
  /\ Len(words) = 3
  /\ words[1].next_review = now
  /\ Bucket(words[2]) = 2 /\ words[2].next_review > now
  /\ Bucket(words[3]) = 1
  /\ ret.out = <<words[1], words[3]>>

\* C30: a review outcome is written to the store only: a step that changes the
\* corpus leaves the questions of the session, the session words and the
\* pre-session levels as they are, so during a session every question holds
\* the word as it was selected at the start, at its pre-session level.
C30_SnapshotKept ==
  /\ [](isActive =>
          \A i \in DOMAIN questions :
            /\ questions[i].word \in Range(sessionWords)
            /\ questions[i].word.level = PrevLevel(questions[i].word.id))
  /\ [][words' # words =>
          /\ questions' = questions
          /\ sessionWords' = sessionWords
          /\ prevLevels' = prevLevels]_vars

\* an answer has just moved the stored word to another level and review date
\* while the question asked still holds the word as it was
C30_Witness ==
  /\ isActive
  /\ ret.op = "submitAnswer"
  /\ HasCurrentQuestion
  /\ \E i \in DOMAIN words :
       /\ words[i].id = currentQuestion.word.id
       /\ words[i].level # currentQuestion.word.level
       /\ words[i].last_reviewed = now
       /\ currentQuestion.word.last_reviewed # now
       /\ currentQuestion.word.level = PrevLevel(words[i].id)

\* the scheduling fields of a word, with its id and creation instant
Scheduling(w) ==
  <<w.id, w.level, w.next_review, w.last_reviewed, w.correct_count,
    w.incorrect_count, w.created_at>>

\* C31: importCSV leaves the scheduling fields of every existing word alone:
\* with 'skip' every existing word is returned as it was, with 'overwrite'
\* id, level, next_review, last_reviewed, the counters and created_at are
\* kept; every word the import creates has level 1, both counters 0, no
\* last_reviewed and a next_review; success + skipped + failed is the number
\* of data rows.
C31_ImportKeepsScheduling ==
  ret.op = "importWords" =>
    LET before == ret.existingWords
        dataRows == Len(SelectSeq(ret.csv.lines, LAMBDA line : ~IsBlankLine(line)))
    IN /\ Len(words) >= Len(before)
       /\ \A i \in DOMAIN before :
            /\ Scheduling(words[i]) = Scheduling(before[i])
            /\ ret.onDuplicate = "skip" => words[i] = before[i]
       /\ \A i \in (Len(before) + 1)..Len(words) :
            /\ words[i].level = 1
            /\ words[i].correct_count = 0 /\ words[i].incorrect_count = 0
            /\ words[i].last_reviewed = NoDate
            /\ words[i].next_review # NoDate
            /\ \A j \in DOMAIN words : j # i => words[j].id # words[i].id
       /\ ret.val.success + ret.val.skipped + ret.val.failed = dataRows

\* an 'overwrite' import of three rows: the mastered word 1 got a new example
\* sentence and is still at level 5, one word was created, one row failed
C31_Witness ==
  /\ ret.op = "importWords"
  /\ ret.onDuplicate = "overwrite"
  /\ Len(ret.existingWords) = 2
  /\ ret.existingWords[1].level = 5
  /\ words[1].level = 5
  /\ words[1].example_en # ret.existingWords[1].example_en
  /\ Len(words) = 3
  /\ ret.val = [success |-> 2, skipped |-> 0, failed |-> 1]

\* C32: in the mounted StudySession, recording an answer does not restart the
\* running session: while a session is active, the effects that run after a
\* handler leave the question list, the current index and the answer ledger
\* as the handler left them, so startSession is not re-run because the corpus
\* was replaced.
C32_NoRestartOnReview ==
  [][(pc = "effects" /\ isActive)
       => /\ questions' = questions
          /\ currentIndex' = currentIndex
          /\ answers' = answers]_vars

CorrectRecords == Len(SelectSeq(answers, LAMBDA r : r.isCorrect))

\* C35: in every state the answered counter is the number of ledger records,
\* the correct counter is the number of those with isCorrect = true, and
\* correctCount <= answeredCount <= number of generated questions; a start
\* that succeeds and a reset leave both counters at 0 and the ledger empty.
C35_CountersMatchLedger ==
  /\ [](/\ answeredCount = Len(answers)
        /\ correctCount = CorrectRecords
        /\ correctCount <= answeredCount
        /\ answeredCount <= Len(questions))
  /\ [][(ret'.op = "resetSession" \/ ret' = [op |-> "startSession", val |-> TRUE])
          => (answeredCount' = 0 /\ correctCount' = 0 /\ answers' = <<>>)]_vars

\* a session with a correct and an incorrect record, in either version of the hook
C35_Witness ==
  /\ Len(answers) = 2
  /\ answeredCount = 2
  /\ correctCount = 1
  /\ Len(questions) = 2

\* C37: updateWordAfterReview(wordId, isCorrect, difficulty) changes only the
\* item with that id: the corpus keeps its length and the order of its ids,
\* every other item is unchanged, and on the target item correct_count grows
\* by 1 when correct and incorrect_count by 1 when incorrect, the other
\* counter staying, so their sum grows by exactly 1; with a wordId that no
\* item has, every item is unchanged.
C37_OnlyTargetChanges ==
  [][ret'.op = "updateWordAfterReview"
       => /\ Len(words') = Len(words)
          /\ \A i \in DOMAIN words :
               /\ words'[i].id = words[i].id
               /\ words[i].id # ret'.wordId => words'[i] = words[i]
               /\ words[i].id = ret'.wordId =>
                    /\ words'[i].correct_count =
                         words[i].correct_count + (IF ret'.isCorrect THEN 1 ELSE 0)
                    /\ words'[i].incorrect_count =
                         words[i].incorrect_count + (IF ret'.isCorrect THEN 0 ELSE 1)
                    /\ words'[i].correct_count + words'[i].incorrect_count =
                         words[i].correct_count + words[i].incorrect_count + 1]_vars

\* the second word of a corpus of two was reviewed just now, the first one never
C37_Witness ==
  /\ ret.op = "updateWordAfterReview"
  /\ Len(words) = 2
  /\ ret.wordId = words[2].id
  /\ words[2].last_reviewed = now
  /\ words[1].last_reviewed = NoDate
  /\ reviewsLeft < MaxReviews

\* C39: once a review was recorded 1 <= current_streak <= longest_streak;
\* longest_streak never decreases; a review on the day of last_study_date
\* leaves the streak unchanged, a review on the day after it raises
\* current_streak by exactly 1, and a review after a gap of more than one day
\* sets current_streak to 1.
C39_StreakRules ==
  /\ [](streak.last_study_date # NoDate
          => (1 <= streak.current_streak
              /\ streak.current_streak <= streak.longest_streak))
  /\ [][/\ streak'.longest_streak >= streak.longest_streak
        /\ ret'.op = "updateWordAfterReview" =>
             LET today == DayOf(now)
                 last == streak.last_study_date
             IN /\ streak'.last_study_date = today
                /\ last = today => streak' = streak
                /\ last = today - 1 => streak'.current_streak = streak.current_streak + 1
                /\ (last # NoDate /\ today - last > 1) => streak'.current_streak = 1]_vars

\* a review after a gap, when the longest streak was two days
C39_Witness ==
  /\ ret.op = "updateWordAfterReview"
  /\ streak.current_streak = 1
  /\ streak.longest_streak = 2
  /\ streak.last_study_date = DayOf(now)

\* a string without whitespace at either end and without two whitespace
\* characters in a row
IsCanonical(t) ==
  /\ t # <<>> => (~IsSpace(t[1]) /\ ~IsSpace(t[Len(t)]))
  /\ \A i \in 1..(Len(t) - 1) : ~(IsSpace(t[i]) /\ IsSpace(t[i + 1]))

\* C38: the normalization of checkAnswer is idempotent and canonical:
\* normalize(normalize(s)) = normalize(s) for every s, and normalize(s) has no
\* whitespace at either end and no run of whitespace, also when s has
\* punctuation next to whitespace.
C38_NormalizeCanonical ==
  /\ ret.op \in {"normalize", "normalizeAgain"} => IsCanonical(ret.once)
  /\ ret.op = "normalizeAgain" => ret.twice = ret.once

====
